---- MODULE Spec2Model ----
(***************************************************************************)
(* fluxx-backend: the user directory (src/models/user.js), the token       *)
(* issuer, the session middleware and the user controllers, over the       *)
(* Redis key layout the code uses.                                         *)
(*                                                                         *)
(* Strings that the code transforms or matches character by character      *)
(* (emails) are sequences of one-character strings; every other value is   *)
(* a string.  A Redis hash is a function from its existing fields to       *)
(* their values; a key that holds no field does not exist.                 *)
(***************************************************************************)
EXTENDS Integers, Sequences, FiniteSets, TLC

VARIABLES
    redis,      \* the Redis database the models read and write
    rng,        \* how many random identifiers have been drawn so far
    now,        \* Date.now()
    ret,        \* what the last completed call returned, with its arguments
    calls,      \* how many calls have completed
    issued,     \* the token sets the server has sent to clients
    inflight    \* the locals of the refreshToken handlers that are running

vars == <<redis, rng, now, ret, calls, issued, inflight>>

----------------------------------------------------------------------------
(* Bounds of the model                                                     *)

MaxUsers == 2       \* calls of `new` that reach createUUID
MaxTokens == 1      \* password-reset tokens drawn
MaxSessions == 2    \* calls of generateToken
MaxTime == 2        \* the clock stops here
MaxCalls == 3       \* calls of the models in one run
MaxRequests == 4    \* HTTP requests in one run
MaxHandlers == 2    \* refreshToken handlers in one run
\* config.token.*.expiresIn, in ticks of the model's clock
AccessTTL == 1
RefreshTTL == 1
ResetTTL == 1

----------------------------------------------------------------------------
(* JavaScript values                                                       *)

\* what `${undefined}` and `${null}` give inside a key template
Undefined == "undefined"
Null == "null"
\* an absent email, as ioredis sends it (toArg: null/undefined -> "")
NoEmail == <<>>
\* `${undefined}` where an email is expected (user:archived:${user.email})
UndefinedEmail == <<"u", "n", "d", "e", "f", "i", "n", "e", "d">>

EmptyObject == <<>>

UpperChars == <<"A","B","C","D","E","F","G","H","I","J","K","L","M",
                "N","O","P","Q","R","S","T","U","V","W","X","Y","Z">>
LowerChars == <<"a","b","c","d","e","f","g","h","i","j","k","l","m",
                "n","o","p","q","r","s","t","u","v","w","x","y","z">>
Digits == {"0","1","2","3","4","5","6","7","8","9"}

Range(s) == {s[i] : i \in DOMAIN s}
Letters == Range(UpperChars) \cup Range(LowerChars)

toLowerCaseChar(c) ==
    IF \E i \in DOMAIN UpperChars : UpperChars[i] = c
    THEN LowerChars[CHOOSE i \in DOMAIN UpperChars : UpperChars[i] = c]
    ELSE c

\* String.prototype.toLowerCase
toLowerCase(s) == [i \in DOMAIN s |-> toLowerCaseChar(s[i])]

\* helpers.utils.isEmpty, for the plain objects the models pass to it
isEmpty(o) == DOMAIN o = {}

\* o.f, or undefined
Field(o, f) == IF f \in DOMAIN o THEN o[f] ELSE Undefined
EmailField(o) == IF "email" \in DOMAIN o THEN o.email ELSE NoEmail

\* Object spread / HSET of several fields: the fields of p over those of o
Merge(o, p) ==
    [f \in DOMAIN o \cup DOMAIN p |-> IF f \in DOMAIN p THEN p[f] ELSE o[f]]

Without(o, fs) == [f \in DOMAIN o \ fs |-> o[f]]

----------------------------------------------------------------------------
(* helpers/user.js and helpers/secure.js                                   *)

\* characters the local part of the isEmailOk pattern excludes
LocalExcluded == {"<", ">", "(", ")", "[", "]", "\\", ".", ",", ";", ":", " ", "@", "\""}

\* [^<>()[\]\\.,;:\s@"]+(\.[^<>()[\]\\.,;:\s@"]+)*
isLocalPart(s) ==
    /\ Len(s) > 0
    /\ s[1] # "." /\ s[Len(s)] # "."
    /\ \A i \in DOMAIN s : s[i] = "." \/ s[i] \notin LocalExcluded
    /\ \A i \in 1..(Len(s) - 1) : ~(s[i] = "." /\ s[i + 1] = ".")

\* ([a-zA-Z\-0-9]+\.)+[a-zA-Z]{2,}
isDomainPart(s) ==
    \E d \in DOMAIN s :
        /\ s[d] = "."
        /\ Len(s) - d >= 2
        /\ \A i \in (d + 1)..Len(s) : s[i] \in Letters
        /\ s[1] # "."
        /\ \A i \in 1..d : s[i] = "." \/ s[i] \in Letters \cup Digits \cup {"-"}
        /\ \A i \in 1..(d - 1) : ~(s[i] = "." /\ s[i + 1] = ".")

\* helpers.user.isEmailOk (the quoted local part and the bracketed address
\* literal of the pattern need characters no modelled input contains)
isEmailOk(email) ==
    \E a \in DOMAIN email :
        /\ email[a] = "@"
        /\ isLocalPart(SubSeq(email, 1, a - 1))
        /\ isDomainPart(SubSeq(email, a + 1, Len(email)))

\* A role as a caller passes it: a string, or the number 1 written "#1".
\* Redis stores every value as a string.
isNumber(role) == role = "#1"
toRedisString(role) == IF isNumber(role) THEN "1" ELSE role

\* helpers.user.isRoleExist: [1, 2].includes(role)
isRoleExist(role) == isNumber(role)

\* helpers.user.secureData
secureData(user) == Without(user, {"hPassword", "salt", "token"})

\* helpers.secure.createPasswordHash(password, salt).hash: HMAC-SHA256 keyed by
\* the salt, then scrypt with the same salt; one hash per (password, salt).
\* Without a salt a random one is drawn (`drawn`).
createPasswordHash(password, salt, drawn) ==
    "h(" \o password \o "," \o (IF salt = Undefined THEN drawn ELSE salt) \o ")"

\* the n-th random draws
createUUID(n) == "u" \o ToString(n)
createSalt(n) == "s" \o ToString(n)
createUrlToken(n) == "t" \o ToString(n)
createRefreshToken(n) == "r" \o ToString(n)
createXsrfToken(n) == "x" \o ToString(n)
createPasswordToken(n) == "k" \o ToString(n)

\* errors/user.js: the HTTPError classes, by name and status
HTTPError(name, status) == [name |-> name, status |-> status, isHTTPError |-> TRUE]
userDoesNotExist == HTTPError("user_does_not_exist", 404)
userAlreadyExists == HTTPError("user_already_exists", 500)
missingPasswordToken == HTTPError("missing_password_token", 401)
badCredentials == HTTPError("bad_credentials", 401)
authMethodNotRecognized == HTTPError("auth_method_not_recognized", 401)
invalidToken == HTTPError("invalid_token", 401)
expiredToken == HTTPError("expired_token", 401)
missingAccessToken == HTTPError("missing_access_token", 401)
missingRefreshToken == HTTPError("missing_refresh_token", 401)
userCannotBeDeleted == HTTPError("user_cannot_be_deleted", 500)
unableToUpdateUser == HTTPError("unable_to_update_user", 500)
userNotAuthorized == HTTPError("user_not_authorized", 403)
\* new Error(message), TypeError
PlainError(message) == [name |-> "Error", message |-> message, isHTTPError |-> FALSE]

----------------------------------------------------------------------------
(* The Redis commands the models use                                       *)

\* HGET key field: the value, or null
hget(h, f) == IF f \in DOMAIN h THEN h[f] ELSE Null

\* HSET key field value
hset(h, f, v) == [g \in DOMAIN h \cup {f} |-> IF g = f THEN v ELSE h[g]]

\* HDEL key field
hdel(h, f) == [g \in DOMAIN h \ {f} |-> h[g]]

\* the key `user:${role}:${id}`
userKey(role, id) == <<role, id>>

\* HGETALL user:<role>:<id>: every field, or {} when the key does not exist
hgetall(db, key) == IF key \in DOMAIN db.users THEN db.users[key] ELSE EmptyObject

\* HSET user:<role>:<id> with an object: its fields are added to the hash
hsetUser(users, key, o) ==
    [k \in DOMAIN users \cup {key} |->
        IF k = key
        THEN Merge(IF key \in DOMAIN users THEN users[key] ELSE EmptyObject, o)
        ELSE users[k]]

\* DEL key
delKey(m, key) == [k \in DOMAIN m \ {key} |-> m[k]]

\* ZADD key NX score member: a member already in the set keeps its score
zaddNX(z, score, member) == IF member \in DOMAIN z THEN z ELSE hset(z, member, score)

\* the database after FLUSHDB
EmptyRedis ==
    [users |-> <<>>,            \* user:<role>:<id>        hash
     idByEmail |-> <<>>,        \* user:idByEmail          hash email -> id
     roleById |-> <<>>,         \* user:roleById           hash id -> role
     idByToken |-> <<>>,        \* user:idByToken          hash url-token -> id
     refreshToken |-> <<>>,     \* user:refreshToken       hash token -> {userId, expiresOn}
     passwordToken |-> <<>>,    \* user:passwordToken:<t>  string id, with its expiry time
     archived |-> <<>>,         \* user:archived:<email>   hash
     archivedZ |-> <<>>,        \* user:archived           sorted set email -> score
     log |-> <<>>]              \* log:<type>              sorted set entry -> score

----------------------------------------------------------------------------
(* The log model: log:<type> is a sorted set of JSON texts scored by the   *)
(* time of the entry.  The text of an object o is written [json |-> o].    *)
(* The key is given 30 days to live at each add, longer than any run here. *)

\* helpers.log.formatRead: JSON.parse
formatRead(log) == log.json

\* log.add(params): createdOn and dateTimeFr are set, the entry is published
\* and, when params.save is set, added to log:<type> unless already there
logAdd(db, params, t) ==
    LET entry == Merge(params, [createdOn |-> t, dateTimeFr |-> <<"fr", t>>])
        type == Field(params, "type")
        z == IF type \in DOMAIN db.log THEN db.log[type] ELSE <<>>
    IN  [db |-> IF "save" \in DOMAIN params /\ params.save
                THEN [db EXCEPT !.log = hset(@, type, zaddNX(z, t, [json |-> entry]))]
                ELSE db,
         ret |-> [logAdded |-> TRUE]]

\* log.getAll(params): ZRANGEBYSCORE log:<type> start stop, the entries whose
\* score lies between start and stop, each parsed (here as a set)
logGetAll(db, params) ==
    LET start == IF "start" \in DOMAIN params /\ params.start # 0 THEN params.start ELSE 0
        stop == IF "stop" \in DOMAIN params /\ params.stop # 0 THEN params.stop ELSE -1
        type == Field(params, "type")
        z == IF type \in DOMAIN db.log THEN db.log[type] ELSE <<>>
    IN  {formatRead(m) : m \in {e \in DOMAIN z : start <= z[e] /\ z[e] <= stop}}

\* log.delAll(params): ZREMRANGEBYSCORE log:<type> start stop when a type is
\* given; a sorted set left empty is no longer a key
logDelAll(db, params) ==
    LET start == IF "start" \in DOMAIN params /\ params.start # 0 THEN params.start ELSE 0
        stop == IF "stop" \in DOMAIN params /\ params.stop # 0 THEN params.stop ELSE -1
        type == Field(params, "type")
        z == IF type \in DOMAIN db.log THEN db.log[type] ELSE <<>>
        kept == {e \in DOMAIN z : ~(start <= z[e] /\ z[e] <= stop)}
    IN  IF type = Undefined THEN [db |-> db, ret |-> [logsDeleted |-> FALSE]]
        ELSE [db |-> [db EXCEPT !.log = IF kept = {} THEN delKey(@, type)
                                        ELSE hset(@, type, [e \in kept |-> z[e]])],
              ret |-> [logsDeleted |-> TRUE]]

----------------------------------------------------------------------------
(* @fastify/jwt                                                            *)

\* a verification that checks the signature only
jwtVerifies_signatureOnly(accessToken, t) == accessToken.signed

\* jwt.verify: the signature is the server's and the token has not expired
jwtVerifies(accessToken, t) == accessToken.signed /\ t < accessToken.exp

----------------------------------------------------------------------------
(* models/user.js                                                          *)

\* the record a lookup key leads to: role through user:roleById, then HGETALL
resolve(db, userId) == hgetall(db, userKey(hget(db.roleById, userId), userId))

\* user.get(opts), opts one of {id}, {email}, {token}, {accessToken}
get(db, opts, t) ==
    LET verified == "accessToken" \in DOMAIN opts => jwtVerifies(opts.accessToken, t)
        user ==
            IF "accessToken" \in DOMAIN opts THEN resolve(db, opts.accessToken.sub)
            ELSE IF "token" \in DOMAIN opts THEN resolve(db, hget(db.idByToken, opts.token))
            ELSE IF "email" \in DOMAIN opts THEN resolve(db, hget(db.idByEmail, opts.email))
            ELSE IF "id" \in DOMAIN opts THEN resolve(db, opts.id)
            ELSE EmptyObject
    IN  IF ~verified THEN [error |-> PlainError("jwt")]
        ELSE IF isEmpty(user) THEN [error |-> userDoesNotExist]
        ELSE user

\* user.getAll(role): the records under the keys user:<role>:*, without their
\* secrets (formatRead parses the timestamps, which the records here do not
\* carry); role defaults to 'customer'
getAll(db, role) ==
    LET r == IF role = Undefined THEN "customer" ELSE role
    IN  {secureData(db.users[k]) : k \in {key \in DOMAIN db.users : key[1] = r}}

\* a MULTI that looks the email up once more and gives up when it is taken
newExec_checksAgain(db, user, password, n) ==
    IF hget(db.idByEmail, toLowerCase(user.email)) # Null
    THEN [db |-> db, ret |-> [error |-> userAlreadyExists]]
    ELSE [db |-> [db EXCEPT
                   !.users = hsetUser(@, userKey(user.role, createUUID(n)),
                                Merge(user,
                                   [id |-> createUUID(n),
                                    salt |-> createSalt(n),
                                    hPassword |-> createPasswordHash(password, createSalt(n),
                                                                     createSalt(n)),
                                    token |-> createUrlToken(n),
                                    email |-> toLowerCase(user.email)])),
                   !.idByEmail = hset(@, toLowerCase(user.email), createUUID(n)),
                   !.roleById = hset(@, createUUID(n), user.role),
                   !.idByToken = hset(@, createUrlToken(n), createUUID(n))],
          ret |-> [userAdded |-> TRUE, id |-> createUUID(n)]]

\* user.new once HGET user:idByEmail has found no entry: the draws, then the
\* four HSETs of one MULTI; n numbers the random draws of this call
newExec(db, user, password, n) ==
    LET id == createUUID(n)
        salt == createSalt(n)
        u == Merge(user,
               [id |-> id,
                salt |-> salt,
                hPassword |-> createPasswordHash(password, salt, salt),
                token |-> createUrlToken(n),
                email |-> toLowerCase(user.email)])
    IN  [db |-> [db EXCEPT
                   !.users = hsetUser(@, userKey(u.role, id), u),
                   !.idByEmail = hset(@, u.email, id),
                   !.roleById = hset(@, id, u.role),
                   !.idByToken = hset(@, u.token, id)],
         ret |-> [userAdded |-> TRUE, id |-> id]]

\* user.new(user, password); n numbers the random draws of this call
new(db, user, password, n) ==
    IF hget(db.idByEmail, user.email) # Null
    THEN [db |-> db, ret |-> [error |-> userAlreadyExists]]
    ELSE newExec(db, user, password, n)

\* the fields of userParams as HSET writes them
asStored(userParams) ==
    IF "role" \in DOMAIN userParams
    THEN [userParams EXCEPT !.role = toRedisString(@)]
    ELSE userParams

\* user.update, the fields it writes: the password replaced by its hash under
\* the salt of `user`, the record update has read (`drawn` is the salt
\* createPasswordHash draws when that record has none), a changed email
\* lowercased
updateParams(user, userParams, drawn) ==
    LET hashed ==
            IF "password" \in DOMAIN userParams
            THEN Merge(Without(userParams, {"password"}),
                       [hPassword |-> createPasswordHash(userParams.password,
                                                         Field(user, "salt"), drawn)])
            ELSE userParams
        emailChanges ==
            /\ "email" \in DOMAIN userParams
            /\ isEmailOk(userParams.email)
            /\ userParams.email # EmailField(user)
    IN  IF emailChanges
        THEN [hashed EXCEPT !.email = toLowerCase(userParams.email)]
        ELSE hashed

\* an email branch whose MULTI also writes the email into the record
updateEmail_withRecord(db, user, userParams) ==
    IF /\ "email" \in DOMAIN userParams
       /\ isEmailOk(userParams.email)
       /\ userParams.email # EmailField(user)
    THEN [db EXCEPT
            !.idByEmail = hdel(hset(@, toLowerCase(userParams.email), Field(user, "id")),
                               EmailField(user)),
            !.users = hsetUser(@, userKey(Field(user, "role"), Field(user, "id")),
                               [email |-> toLowerCase(userParams.email)])]
    ELSE db

\* user.update, the MULTI of the email branch: HSET and HDEL of user:idByEmail
updateEmail(db, user, userParams) ==
    IF /\ "email" \in DOMAIN userParams
       /\ isEmailOk(userParams.email)
       /\ userParams.email # EmailField(user)
    THEN [db EXCEPT !.idByEmail =
              hdel(hset(@, toLowerCase(userParams.email), Field(user, "id")),
                   EmailField(user))]
    ELSE db

\* user.update, the MULTI of the role branch: HSET user:roleById and DEL of
\* the record
updateRole(db, user, userParams) ==
    IF /\ "role" \in DOMAIN userParams
       /\ userParams.role # Field(user, "role")
       /\ isRoleExist(userParams.role)
    THEN [db EXCEPT
            !.roleById = hset(@, userParams.id, toRedisString(userParams.role)),
            !.users = delKey(@, userKey(Field(user, "role"), Field(user, "id")))]
    ELSE db

\* user.update, the final HSET user:<user.role>:<id>
updateHset(db, user, userParams, drawn) ==
    [db EXCEPT !.users =
        hsetUser(@, userKey(Field(user, "role"), userParams.id),
                 asStored(updateParams(user, userParams, drawn)))]

\* user.update(userParams)
update(db, userParams, t, drawn) ==
    LET hasEmail == "email" \in DOMAIN userParams
        userTest == get(db, [email |-> userParams.email], t)
        userStillExists ==
            /\ hasEmail
            /\ EmailField(userTest) = userParams.email
            /\ Field(userTest, "id") # userParams.id
        user == get(db, [id |-> userParams.id], t)
        db1 == updateEmail(db, user, userParams)
        db2 == updateRole(db1, user, userParams)
        db3 == updateHset(db2, user, userParams, drawn)
    IN  IF userStillExists THEN [db |-> db, ret |-> [error |-> PlainError("userStillExists")]]
        ELSE IF "error" \in DOMAIN user THEN [db |-> db, ret |-> user.error]
        ELSE [db |-> db3, ret |-> [userUpdated |-> TRUE, id |-> Field(user, "id")]]

\* a MULTI that archives the user and leaves the record and user:roleById
delExec_archivesOnly(db, user, t) ==
    LET archivedFields == IF "error" \in DOMAIN user THEN [error |-> user.error.name] ELSE user
        archiveKey == IF "email" \in DOMAIN user THEN user.email ELSE UndefinedEmail
    IN  [db |-> [db EXCEPT
                   !.archived = hset(@, archiveKey,
                                     Merge(IF archiveKey \in DOMAIN @ THEN @[archiveKey]
                                                                     ELSE EmptyObject,
                                           archivedFields)),
                   !.archivedZ = zaddNX(@, t, EmailField(user)),
                   !.idByEmail = hdel(@, EmailField(user)),
                   !.idByToken = hdel(@, Field(user, "token"))],
         ret |-> [userDeleted |-> TRUE, id |-> Field(user, "id")]]

\* user.del once get has answered `user`: the MULTI that archives the record
\* and deletes it with its index entries
delExec(db, user, t) ==
    LET \* HSET of the object get returned; an error object is stored as its text
        archivedFields == IF "error" \in DOMAIN user THEN [error |-> user.error.name] ELSE user
        archiveKey == IF "email" \in DOMAIN user THEN user.email ELSE UndefinedEmail
    IN  [db |-> [db EXCEPT
                   !.archived = hset(@, archiveKey,
                                     Merge(IF archiveKey \in DOMAIN @ THEN @[archiveKey]
                                                                     ELSE EmptyObject,
                                           archivedFields)),
                   !.archivedZ = zaddNX(@, t, EmailField(user)),
                   !.users = delKey(@, userKey(Field(user, "role"), Field(user, "id"))),
                   !.idByEmail = hdel(@, EmailField(user)),
                   !.roleById = hdel(@, Field(user, "id")),
                   !.idByToken = hdel(@, Field(user, "token"))],
         ret |-> [userDeleted |-> TRUE, id |-> Field(user, "id")]]

\* user.del(opts)
del(db, opts, t) == delExec(db, get(db, opts, t), t)

\* a password check that only looks for a stored hash
hashMatches_anyPassword(user, password) == Field(user, "hPassword") # Undefined

\* authenticate's password check: the hash of the password under the record's
\* salt is the record's hPassword
hashMatches(user, password) ==
    createPasswordHash(password, Field(user, "salt"), "drawn") = Field(user, "hPassword")

\* an authenticate that takes a url-token as proof enough
authenticate_tokenAlone(db, id, password, authType, t) ==
    IF authType \notin {"emailAuth", "streamLineAuth"}
    THEN [error |-> PlainError("Auth method not recognized."), authorized |-> FALSE]
    ELSE
        LET opts == IF authType = "emailAuth" THEN [email |-> id] ELSE [token |-> id]
            user == get(db, opts, t)
        IN  IF "error" \in DOMAIN user \/ isEmpty(user) THEN [authorized |-> FALSE]
            ELSE IF authType = "streamLineAuth" THEN [user |-> user, authorized |-> TRUE]
            ELSE IF password = Undefined
                 THEN [error |-> PlainError("ERR_INVALID_ARG_TYPE"), authorized |-> FALSE]
            ELSE IF hashMatches(user, password)
                 THEN [user |-> user, authorized |-> TRUE]
            ELSE [authorized |-> FALSE]

\* user.authenticate(id, password, authType); an absent password is Undefined
authenticate(db, id, password, authType, t) ==
    IF authType \notin {"emailAuth", "streamLineAuth"}
    THEN [error |-> PlainError("Auth method not recognized."), authorized |-> FALSE]
    ELSE
        LET opts == IF authType = "emailAuth" THEN [email |-> id] ELSE [token |-> id]
            user == get(db, opts, t)
        IN  IF "error" \in DOMAIN user \/ isEmpty(user) THEN [authorized |-> FALSE]
            \* hmac.update(undefined) throws
            ELSE IF password = Undefined
                 THEN [error |-> PlainError("ERR_INVALID_ARG_TYPE"), authorized |-> FALSE]
            ELSE IF hashMatches(user, password)
                 THEN [user |-> user, authorized |-> TRUE]
            ELSE [authorized |-> FALSE]

\* a reset token whose key is never given a deadline
getPasswordToken_neverExpires(db, token, t) ==
    IF token \in DOMAIN db.passwordToken THEN db.passwordToken[token].id ELSE Null

\* GET user:passwordToken:<token>, a key that EXPIRE removes at its deadline
getPasswordToken(db, token, t) ==
    IF token \in DOMAIN db.passwordToken /\ t < db.passwordToken[token].expiresAt
    THEN db.passwordToken[token].id
    ELSE Null

\* user.sendAskResetPassword(email); `sent` is what models.mailer returns
sendAskResetPassword(db, email, t, n, sent) ==
    LET user == get(db, [email |-> email], t)
        token == createPasswordToken(n)
    IN  IF "error" \in DOMAIN user THEN [db |-> db, ret |-> user.error]
        ELSE [db |-> [db EXCEPT !.passwordToken =
                         hset(@, token, [id |-> Field(user, "id"), expiresAt |-> t + ResetTTL])],
              ret |-> IF sent THEN [askResetPasswordSent |-> TRUE]
                              ELSE PlainError("sendMail")]

\* a reset that consumes its token: the record is deleted once it is read
resetPassword_consumesToken(db, token, password, t, drawn) ==
    LET id == getPasswordToken(db, token, t)
        user == get(db, [id |-> id], t)
        used == [db EXCEPT !.passwordToken =
                    [k \in DOMAIN @ \ {token} |-> @[k]]]
    IN  IF id = Null THEN [db |-> db, ret |-> [error |-> missingPasswordToken]]
        ELSE IF "error" \in DOMAIN user THEN [db |-> used, ret |-> user.error]
        ELSE update(used, [id |-> id, password |-> password], t, drawn)

\* user.resetPassword(token, password)
resetPassword(db, token, password, t, drawn) ==
    LET id == getPasswordToken(db, token, t)
        user == get(db, [id |-> id], t)
    IN  IF id = Null THEN [db |-> db, ret |-> [error |-> missingPasswordToken]]
        ELSE IF "error" \in DOMAIN user THEN [db |-> db, ret |-> user.error]
        ELSE update(db, [id |-> id, password |-> password], t, drawn)

\* a token issuer that keeps one refresh token per user: the new record
\* replaces the ones the user already has
generateToken_singleSession(db, user, t, n) ==
    LET xsrfToken == createXsrfToken(n)
        refreshToken == createRefreshToken(n)
        accessToken ==
            [firstname |-> Field(user, "firstname"),
             lastname |-> Field(user, "lastname"),
             id |-> Field(user, "id"),
             xsrfToken |-> xsrfToken,
             refreshToken |-> refreshToken,
             sub |-> Field(user, "id"),
             exp |-> t + AccessTTL,
             signed |-> TRUE]
        others == {k \in DOMAIN db.refreshToken :
                        db.refreshToken[k].userId # Field(user, "id")}
    IN  [db |-> [db EXCEPT !.refreshToken =
                    hset([k \in others |-> db.refreshToken[k]], refreshToken,
                         [userId |-> Field(user, "id"), expiresOn |-> t + RefreshTTL])],
         ret |-> [accessToken |-> accessToken,
                  refreshToken |-> refreshToken,
                  xsrfToken |-> xsrfToken]]

\* user.generateToken(user): the access token is the signed payload; n numbers
\* the random draws of this call
generateToken(db, user, t, n) ==
    LET xsrfToken == createXsrfToken(n)
        refreshToken == createRefreshToken(n)
        accessToken ==
            [firstname |-> Field(user, "firstname"),
             lastname |-> Field(user, "lastname"),
             id |-> Field(user, "id"),
             xsrfToken |-> xsrfToken,
             refreshToken |-> refreshToken,
             sub |-> Field(user, "id"),
             exp |-> t + AccessTTL,
             signed |-> TRUE]
    IN  [db |-> [db EXCEPT !.refreshToken =
                    hset(@, refreshToken,
                         [userId |-> Field(user, "id"), expiresOn |-> t + RefreshTTL])],
         ret |-> [accessToken |-> accessToken,
                  refreshToken |-> refreshToken,
                  xsrfToken |-> xsrfToken]]

\* a gate that lets every live user through
isAdmin_anyLiveUser(db, accessToken, t) ==
    "error" \notin DOMAIN get(db, [accessToken |-> accessToken], t)

\* user.isAdmin(accessToken)
isAdmin(db, accessToken, t) ==
    LET activeUser == get(db, [accessToken |-> accessToken], t)
    IN  Field(activeUser, "role") = "admin"

----------------------------------------------------------------------------
(* middlewares/secure.js                                                   *)

\* a middleware that answers 403 Forbidden
Sent401_forbidden(err) == [sent |-> TRUE, code |-> 403, err |-> err]

\* res.code(401).send(err)
Sent401(err) == [sent |-> TRUE, code |-> 401, err |-> err]

\* the XSRF token a request supplies; a header holding several entries is the
\* sequence of its entries and split(',')[0] is the first of them
suppliedXsrfToken(headers) ==
    IF Field(headers, "upgrade") = "websocket"
    THEN IF "sec-websocket-protocol" \in DOMAIN headers
         THEN Head(headers["sec-websocket-protocol"]) ELSE Undefined
    ELSE Field(headers, "x-srf-token")

\* secure.verifyJWT(req, res): what it has sent when it returns, if anything
verifyJWT(db, req, t) ==
    IF "access_token" \notin DOMAIN req.cookies
    THEN Sent401(missingAccessToken)
    ELSE
        LET accessToken == req.cookies.access_token
            xsrfToken == suppliedXsrfToken(req.headers)
            user == get(db, [id |-> accessToken.id], t)
        IN  IF xsrfToken = Undefined THEN Sent401(missingAccessToken)
            ELSE IF ~jwtVerifies(accessToken, t) THEN Sent401(PlainError("jwt"))
            ELSE IF xsrfToken # accessToken.xsrfToken THEN Sent401(invalidToken)
            ELSE IF "error" \in DOMAIN user \/ isEmpty(user) THEN Sent401(badCredentials)
            ELSE [sent |-> FALSE]

----------------------------------------------------------------------------
(* controllers/user.js: what each handler answers and does to the database *)

\* controllers.user.getAuth
getAuth(db, req, t) ==
    LET user == secureData(get(db, [accessToken |-> req.cookies.access_token], t))
    IN  IF "error" \in DOMAIN user \/ isEmpty(user)
        THEN [db |-> db, ret |-> [error |-> userDoesNotExist]]
        ELSE [db |-> db, ret |-> [isAuth |-> TRUE, user |-> user]]

\* controllers.user.new; the body has passed the route's schema
ctlNew(db, req, t, n) ==
    LET body == req.body.user
        data == new(db, Without(body, {"password"}), body.password, n)
    IN  IF ~isAdmin(db, req.cookies.access_token, t) THEN [db |-> db, ret |-> userNotAuthorized]
        ELSE IF "error" \in DOMAIN data.ret THEN [db |-> data.db, ret |-> data.ret.error]
        ELSE [db |-> data.db,
              ret |-> Merge(data.ret, [message |-> "User account added successfully"])]

\* a handler that passes the email of the body on for every caller
ctlUpdate_keepsEmail(db, req, t, drawn) ==
    LET activeUser == get(db, [accessToken |-> req.cookies.access_token], t)
        admin == Field(activeUser, "role") = "admin"
        user == Merge(req.body.user, [id |-> req.params.id])
        data == update(db, user, t, drawn)
    IN  IF ~admin /\ Field(activeUser, "id") # req.params.id
        THEN [db |-> db, ret |-> userNotAuthorized]
        ELSE IF "error" \in DOMAIN data.ret THEN [db |-> data.db, ret |-> unableToUpdateUser]
        ELSE [db |-> data.db,
              ret |-> Merge(data.ret, [message |-> "User account updated successfully"])]

\* controllers.user.update; the body has passed the route's schema
ctlUpdate(db, req, t, drawn) ==
    LET activeUser == get(db, [accessToken |-> req.cookies.access_token], t)
        admin == Field(activeUser, "role") = "admin"
        user == Merge(IF admin THEN req.body.user ELSE Without(req.body.user, {"email"}),
                      [id |-> req.params.id])
        data == update(db, user, t, drawn)
    IN  IF ~admin /\ Field(activeUser, "id") # req.params.id
        THEN [db |-> db, ret |-> userNotAuthorized]
        ELSE IF "error" \in DOMAIN data.ret THEN [db |-> data.db, ret |-> unableToUpdateUser]
        ELSE [db |-> data.db,
              ret |-> Merge(data.ret, [message |-> "User account updated successfully"])]

\* controllers.user.del
ctlDel(db, req, t) ==
    LET data == del(db, [id |-> req.params.id], t)
    IN  IF ~isAdmin(db, req.cookies.access_token, t)
        THEN [db |-> db, ret |-> [error |-> userNotAuthorized]]
        ELSE [db |-> data.db,
              ret |-> Merge(data.ret, [message |-> "User account deleted successfully"])]

\* controllers.user.getAll
ctlGetAll(db, req, t) ==
    IF ~isAdmin(db, req.cookies.access_token, t) THEN [db |-> db, ret |-> userNotAuthorized]
    ELSE [db |-> db, ret |-> [users |-> getAll(db, Field(req.query, "role"))]]

\* controllers.user.get: `!activeUser.role !== 'admin'` compares a boolean with
\* a string and is true for every caller
ctlGet(db, req, t) ==
    LET id == req.params.id
        activeUser == get(db, [accessToken |-> req.cookies.access_token], t)
        notAdmin == TRUE
        user == get(db, [id |-> id], t)
    IN  IF notAdmin /\ Field(activeUser, "id") # id THEN [db |-> db, ret |-> userNotAuthorized]
        ELSE IF "error" \in DOMAIN user THEN [db |-> db, ret |-> user.error]
        ELSE [db |-> db,
              ret |-> [user |-> Without(user, {"hPassword", "salt", "token", "createdOn"})]]

\* a handler that sets the access_token cookie alone
signIn_accessCookieOnly(db, body, t, n) ==
    LET data ==
            IF body.authMethod = "emailAuth"
            THEN authenticate(db, body.email, Field(body, "password"), "emailAuth", t)
            ELSE authenticate(db, Field(body, "urlToken"), Field(body, "password"),
                              "streamLineAuth", t)
        tokens == generateToken(db, data.user, t, n)
    IN  IF body.authMethod \notin {"emailAuth", "streamLineAuth"}
        THEN [db |-> db, ret |-> authMethodNotRecognized, cookies |-> EmptyObject]
        ELSE IF "user" \notin DOMAIN data \/ ~data.authorized
        THEN [db |-> db, ret |-> badCredentials, cookies |-> EmptyObject]
        ELSE [db |-> tokens.db,
              ret |-> [xsrfToken |-> tokens.ret.xsrfToken,
                       isAuth |-> TRUE,
                       user |-> secureData(data.user)],
              cookies |-> [access_token |-> tokens.ret.accessToken]]

\* controllers.user.signIn; n numbers the random draws of generateToken.
\* streamLineAuth reads the body field `urlToken`; the route's schema lists
\* `token` and does not forbid other fields.  `stored` tells whether the HSET
\* of generateToken succeeds: when it fails generateToken returns {error},
\* and the three names the handler destructures from it are undefined.
signInStored(db, body, t, n, stored) ==
    LET data ==
            IF body.authMethod = "emailAuth"
            THEN authenticate(db, body.email, Field(body, "password"), "emailAuth", t)
            ELSE authenticate(db, Field(body, "urlToken"), Field(body, "password"),
                              "streamLineAuth", t)
        tokens == IF stored THEN generateToken(db, data.user, t, n)
                  ELSE [db |-> db, ret |-> [error |-> PlainError("hset")]]
    IN  IF body.authMethod \notin {"emailAuth", "streamLineAuth"}
        THEN [db |-> db, ret |-> authMethodNotRecognized, cookies |-> EmptyObject]
        ELSE IF "user" \notin DOMAIN data \/ ~data.authorized
        THEN [db |-> db, ret |-> badCredentials, cookies |-> EmptyObject]
        ELSE [db |-> tokens.db,
              ret |-> [xsrfToken |-> Field(tokens.ret, "xsrfToken"),
                       isAuth |-> TRUE,
                       user |-> secureData(data.user)],
              cookies |-> [access_token |-> Field(tokens.ret, "accessToken"),
                           refresh_token |-> Field(tokens.ret, "refreshToken")]]

\* controllers.user.signIn when the store answers its commands
signIn(db, body, t, n) == signInStored(db, body, t, n, TRUE)

----------------------------------------------------------------------------
(* What callers pass                                                       *)

Email_a == <<"a", "@", "x", ".", "f", "r">>
Email_A == <<"A", "@", "x", ".", "f", "r">>
Email_b == <<"b", "@", "x", ".", "f", "r">>
Email_bad == <<"a", "@", "x">>

Emails == {Email_a, Email_A, Email_b, Email_bad}
Roles == {"admin", "customer"}
Firstnames == {"John"}
Lastnames == {"Doe"}
\* the password an account is created with, and the one it is changed to
FirstPasswords == {"p1"}
NextPasswords == {"p2"}
Passwords == FirstPasswords \cup NextPasswords
\* update is given a role name, or the number isRoleExist knows
UpdateRoles == {"admin", "#1"}

\* the identifiers drawn so far
UserIds == {createUUID(n) : n \in 1..rng.users}
UrlTokens == {createUrlToken(n) : n \in 1..rng.users}
PasswordTokens == {createPasswordToken(n) : n \in 1..rng.tokens}

\* { f: v } when v is given, {} otherwise
Given(f, v, absent) == IF v = absent THEN EmptyObject ELSE (f :> v)

\* the objects update is called with: an id and any of the other fields
UserParams ==
    {[id |-> id] @@ Given("email", e, NoEmail) @@ Given("password", p, Undefined)
        @@ Given("role", r, Undefined) :
        id \in UserIds, e \in Emails \cup {NoEmail}, p \in NextPasswords \cup {Undefined},
        r \in UpdateRoles \cup {Undefined}}

Lookups ==
    {[id |-> id] : id \in UserIds} \cup {[email |-> e] : e \in Emails}
        \cup {[token |-> k] : k \in UrlTokens}

----------------------------------------------------------------------------
(* The directory, one completed call at a time                             *)

Init ==
    /\ redis = EmptyRedis
    /\ rng = [users |-> 0, tokens |-> 0, sessions |-> 0]
    /\ now = 0
    /\ ret = [op |-> "init"]
    /\ calls = 0
    /\ issued = {}
    /\ inflight = <<>>

\* one more call of a model completes; no request is involved
Called == calls < MaxCalls /\ calls' = calls + 1 /\ UNCHANGED <<issued, inflight>>

New ==
    /\ Called
    /\ \E e \in Emails, r \in Roles, f \in Firstnames, l \in Lastnames, p \in FirstPasswords :
        LET user == [email |-> e, role |-> r, firstname |-> f, lastname |-> l]
            out == new(redis, user, p, rng.users + 1)
        IN  /\ "userAdded" \in DOMAIN out.ret => rng.users < MaxUsers
            /\ redis' = out.db
            /\ rng' = IF "userAdded" \in DOMAIN out.ret
                      THEN [rng EXCEPT !.users = @ + 1] ELSE rng
            /\ ret' = [op |-> "new", user |-> user, password |-> p, val |-> out.ret]
            /\ UNCHANGED now

Update ==
    /\ Called
    /\ \E userParams \in UserParams :
        LET out == update(redis, userParams, now, createSalt(0))
        IN  /\ redis' = out.db
            /\ ret' = [op |-> "update", userParams |-> userParams, val |-> out.ret]
            /\ UNCHANGED <<rng, now>>

Del ==
    /\ Called
    /\ \E opts \in Lookups :
        LET out == del(redis, opts, now)
        IN  /\ redis' = out.db
            /\ ret' = [op |-> "del", opts |-> opts, val |-> out.ret]
            /\ UNCHANGED <<rng, now>>

Authenticated(id, p, authType) ==
    /\ ret' = [op |-> "authenticate", id |-> id, password |-> p, authType |-> authType,
               val |-> authenticate(redis, id, p, authType, now)]
    /\ UNCHANGED <<redis, rng, now>>

Authenticate ==
    /\ Called
    /\ \E p \in Passwords \cup {Undefined} :
        \/ \E email \in Emails, authType \in {"emailAuth", "oauth"} :
              Authenticated(email, p, authType)
        \/ \E urlToken \in UrlTokens \cup {createUrlToken(0)} :
              Authenticated(urlToken, p, "streamLineAuth")

SendAskResetPassword ==
    /\ Called
    /\ \E e \in Emails, sent \in BOOLEAN :
        LET out == sendAskResetPassword(redis, e, now, rng.tokens + 1, sent)
            drew == out.db # redis
        IN  /\ drew => rng.tokens < MaxTokens
            /\ redis' = out.db
            /\ rng' = IF drew THEN [rng EXCEPT !.tokens = @ + 1] ELSE rng
            /\ ret' = [op |-> "sendAskResetPassword", email |-> e, val |-> out.ret]
            /\ UNCHANGED now

ResetPassword ==
    /\ Called
    /\ \E k \in PasswordTokens \cup {createPasswordToken(0)}, p \in NextPasswords :
        LET out == resetPassword(redis, k, p, now, createSalt(0))
        IN  /\ redis' = out.db
            /\ ret' = [op |-> "resetPassword", token |-> k, password |-> p, val |-> out.ret]
            /\ UNCHANGED <<rng, now>>

\* time passes between calls
Tick ==
    /\ now < MaxTime
    /\ now' = now + 1
    /\ ret' = [op |-> "tick"]
    /\ UNCHANGED <<redis, rng, calls, issued, inflight>>

Next ==
    \/ New
    \/ Update
    \/ Del
    \/ Authenticate
    \/ SendAskResetPassword
    \/ ResetPassword

Spec == Init /\ [][Next]_vars

----------------------------------------------------------------------------
(* The HTTP API: one request at a time, from the seeded database            *)

\* seed/index.js: FLUSHDB, then user.new for the administrator of seed/user.js
\* (here under the email a@x.fr and the password p1)
SeedUser == [email |-> Email_a, firstname |-> "John", lastname |-> "Doe", role |-> "admin"]
Seeded == new(EmptyRedis, SeedUser, "p1", 1).db

\* an access token signed with another key, naming the seeded administrator
ForgedToken ==
    [firstname |-> "John", lastname |-> "Doe", id |-> createUUID(1),
     xsrfToken |-> createXsrfToken(0), refreshToken |-> createRefreshToken(0),
     sub |-> createUUID(1), exp |-> MaxTime + 1, signed |-> FALSE]

\* the sec-websocket-protocol and x-srf-token headers a client may send
\* along with the XSRF token x
XsrfHeaders(x) ==
    {EmptyObject,
     "x-srf-token" :> x,
     "x-srf-token" :> createXsrfToken(0),
     "upgrade" :> "websocket" @@ "sec-websocket-protocol" :> <<x, "chat">>,
     "upgrade" :> "websocket" @@ "sec-websocket-protocol" :> <<"chat", x>>,
     "upgrade" :> "websocket" @@ "x-srf-token" :> x}

\* what a client that signed in sends, and what a client without a session can
Credentials ==
    {[cookies |-> EmptyObject, headers |-> "x-srf-token" :> createXsrfToken(0)],
     [cookies |-> [access_token |-> ForgedToken],
      headers |-> "x-srf-token" :> ForgedToken.xsrfToken]}
    \cup {[cookies |-> [access_token |-> s.access_token],
           headers |-> "x-srf-token" :> s.xsrfToken] : s \in issued}

\* every way of presenting a session
Presentations ==
    Credentials \cup
    UNION {{[cookies |-> [access_token |-> s.access_token], headers |-> h] :
                h \in XsrfHeaders(s.xsrfToken)} : s \in issued}

\* the bodies of POST /api/users and PUT /api/users/:id the schemas accept
NewBodies ==
    {[firstname |-> "John", lastname |-> "Doe", email |-> Email_b, password |-> "p1",
      role |-> r] : r \in Roles}
UpdateBodies ==
    {[firstname |-> "John", lastname |-> "Doe", email |-> e] @@ Given("role", r, Undefined) :
        e \in {Email_a, Email_b}, r \in Roles \cup {Undefined}}
SignInBodies ==
    {[authMethod |-> "emailAuth", email |-> e, password |-> p] :
        e \in {Email_a, Email_b}, p \in Passwords}
    \cup {[authMethod |-> "streamLineAuth", password |-> "p1"], [authMethod |-> "oauth"]}

InitHttp ==
    /\ redis = Seeded
    /\ rng = [users |-> 1, tokens |-> 0, sessions |-> 0]
    /\ now = 0
    /\ ret = [op |-> "init"]
    /\ calls = 0
    /\ issued = {}
    /\ inflight = <<>>

\* one more request is answered
Requested == calls < MaxRequests /\ calls' = calls + 1 /\ UNCHANGED inflight

\* the answer to a request, and whether its handler ran
Answered(op, req, reached, db, val) ==
    /\ redis' = db
    /\ ret' = [op |-> op, req |-> req, reached |-> reached, val |-> val]

\* a route whose preHandler is verifyJWT: the handler does not run once
\* verifyJWT has sent the reply
GetAuth ==
    /\ Requested
    /\ \E req \in Presentations :
        LET pre == verifyJWT(redis, req, now)
            out == getAuth(redis, req, now)
        IN  IF pre.sent THEN Answered("getAuth", req, FALSE, redis, pre)
            ELSE Answered("getAuth", req, TRUE, out.db, out.ret)
    /\ UNCHANGED <<rng, now, issued>>

CtlNew ==
    /\ Requested
    /\ \E cred \in Credentials, body \in NewBodies :
        LET req == cred @@ [body |-> [user |-> body, sendPasswordByEmail |-> FALSE]]
            pre == verifyJWT(redis, req, now)
            out == ctlNew(redis, req, now, rng.users + 1)
            added == ~pre.sent /\ "userAdded" \in DOMAIN out.ret
        IN  /\ added => rng.users < MaxUsers
            /\ IF pre.sent THEN Answered("new", req, FALSE, redis, pre)
               ELSE Answered("new", req, TRUE, out.db, out.ret)
            /\ rng' = IF added THEN [rng EXCEPT !.users = @ + 1] ELSE rng
    /\ UNCHANGED <<now, issued>>

CtlUpdate ==
    /\ Requested
    /\ \E cred \in Credentials, id \in UserIds, body \in UpdateBodies :
        LET req == cred @@ [params |-> [id |-> id],
                            body |-> [user |-> body, sendPasswordByEmail |-> FALSE]]
            pre == verifyJWT(redis, req, now)
            out == ctlUpdate(redis, req, now, createSalt(0))
        IN  IF pre.sent THEN Answered("update", req, FALSE, redis, pre)
            ELSE Answered("update", req, TRUE, out.db, out.ret)
    /\ UNCHANGED <<rng, now, issued>>

CtlDel ==
    /\ Requested
    /\ \E cred \in Credentials, id \in UserIds :
        LET req == cred @@ [params |-> [id |-> id]]
            pre == verifyJWT(redis, req, now)
            out == ctlDel(redis, req, now)
        IN  IF pre.sent THEN Answered("del", req, FALSE, redis, pre)
            ELSE Answered("del", req, TRUE, out.db, out.ret)
    /\ UNCHANGED <<rng, now, issued>>

CtlGetAll ==
    /\ Requested
    /\ \E cred \in Credentials, role \in Roles \cup {Undefined} :
        LET req == cred @@ [query |-> Given("role", role, Undefined)]
            pre == verifyJWT(redis, req, now)
            out == ctlGetAll(redis, req, now)
        IN  IF pre.sent THEN Answered("getAll", req, FALSE, redis, pre)
            ELSE Answered("getAll", req, TRUE, out.db, out.ret)
    /\ UNCHANGED <<rng, now, issued>>

CtlGet ==
    /\ Requested
    /\ \E cred \in Credentials, id \in UserIds :
        LET req == cred @@ [params |-> [id |-> id]]
            pre == verifyJWT(redis, req, now)
            out == ctlGet(redis, req, now)
        IN  IF pre.sent THEN Answered("get", req, FALSE, redis, pre)
            ELSE Answered("get", req, TRUE, out.db, out.ret)
    /\ UNCHANGED <<rng, now, issued>>

\* POST /api/users/signIn has no preHandler
SignIn ==
    /\ Requested
    /\ \E body \in SignInBodies :
        LET out == signIn(redis, body, now, rng.sessions + 1)
            signedIn == "access_token" \in DOMAIN out.cookies
        IN  /\ signedIn => rng.sessions < MaxSessions
            /\ Answered("signIn", [body |-> body], TRUE, out.db, out.ret)
            /\ rng' = IF signedIn THEN [rng EXCEPT !.sessions = @ + 1] ELSE rng
            /\ issued' = IF signedIn
                         THEN issued \cup {out.cookies @@ [xsrfToken |-> out.ret.xsrfToken]}
                         ELSE issued
    /\ UNCHANGED now

NextHttp ==
    \/ GetAuth
    \/ CtlNew
    \/ CtlUpdate
    \/ CtlDel
    \/ CtlGetAll
    \/ CtlGet
    \/ SignIn
    \/ Tick

SpecHttp == InitHttp /\ [][NextHttp]_vars

----------------------------------------------------------------------------
(* GET /api/users/refreshToken, one Redis command at a time.  Node runs a   *)
(* handler up to its next `await`; handlers of other requests run while    *)
(* the command is on its way.                                              *)

\* the cookies a client may send: none, a refresh token it was given, or one
\* the server never issued
RefreshCookies ==
    {EmptyObject, [refresh_token |-> createRefreshToken(0)]}
        \cup {[refresh_token |-> s.refresh_token] : s \in issued}

\* handler i goes on with these locals
Proceed(i, locals) == inflight' = [inflight EXCEPT ![i] = Merge(@, locals)]

\* handler i returns or sends `answer`
Complete(i, answer) ==
    /\ Proceed(i, [pc |-> "done", answer |-> answer])
    /\ ret' = [op |-> "refreshToken", handler |-> i, val |-> answer]

\* the request arrives; the handler reads its cookie and sends HGET
RefreshReceive ==
    /\ Len(inflight) < MaxHandlers
    /\ \E cookies \in RefreshCookies :
        IF "refresh_token" \in DOMAIN cookies
        THEN /\ inflight' = Append(inflight, [pc |-> "hget",
                                              refreshToken |-> cookies.refresh_token])
             /\ UNCHANGED ret
        ELSE /\ inflight' = Append(inflight, [pc |-> "done", answer |-> missingRefreshToken])
             /\ ret' = [op |-> "refreshToken", handler |-> Len(inflight) + 1,
                        val |-> missingRefreshToken]
    /\ UNCHANGED <<redis, rng, now, calls, issued>>

\* a handler that refuses a token presented at the very instant it expires
RefreshHget_expiredAtDeadline(i) ==
    /\ inflight[i].pc = "hget"
    /\ LET oldRefreshToken == hget(redis.refreshToken, inflight[i].refreshToken)
       IN  IF inflight[i].refreshToken \notin DOMAIN redis.refreshToken
           THEN Complete(i, invalidToken)
           ELSE IF oldRefreshToken.expiresOn <= now THEN Complete(i, expiredToken)
           ELSE Proceed(i, [pc |-> "get", oldRefreshToken |-> oldRefreshToken])
                    /\ UNCHANGED ret
    /\ UNCHANGED <<redis, rng, now, calls, issued>>

\* HGET user:refreshToken answers; the handler checks the entry and its
\* expiry and calls user.get
RefreshHget(i) ==
    /\ inflight[i].pc = "hget"
    /\ LET oldRefreshToken == hget(redis.refreshToken, inflight[i].refreshToken)
       IN  IF inflight[i].refreshToken \notin DOMAIN redis.refreshToken
           THEN Complete(i, invalidToken)
           ELSE IF oldRefreshToken.expiresOn < now THEN Complete(i, expiredToken)
           ELSE Proceed(i, [pc |-> "get", oldRefreshToken |-> oldRefreshToken])
                    /\ UNCHANGED ret
    /\ UNCHANGED <<redis, rng, now, calls, issued>>

\* user.get answers; the handler calls generateToken
RefreshGet(i) ==
    /\ inflight[i].pc = "get"
    /\ LET user == get(redis, [id |-> inflight[i].oldRefreshToken.userId], now)
       IN  IF "error" \in DOMAIN user THEN Complete(i, user.error)
           ELSE Proceed(i, [pc |-> "generateToken", user |-> user]) /\ UNCHANGED ret
    /\ UNCHANGED <<redis, rng, now, calls, issued>>

\* generateToken draws the tokens and stores the new refresh token; the
\* handler sends HDEL for the old one
RefreshGenerateToken(i) ==
    /\ inflight[i].pc = "generateToken"
    /\ LET out == generateToken(redis, inflight[i].user, now, rng.sessions + 1)
       IN  /\ redis' = out.db
           /\ Proceed(i, [pc |-> "hdel", tokens |-> out.ret])
    /\ rng' = [rng EXCEPT !.sessions = @ + 1]
    /\ UNCHANGED <<now, ret, calls, issued>>

\* a handler that sends the new tokens and leaves the old record in place
RefreshHdel_keepsOldToken(i) ==
    /\ inflight[i].pc = "hdel"
    /\ Complete(i, [xsrfToken |-> inflight[i].tokens.xsrfToken])
    /\ issued' = issued \cup {[access_token |-> inflight[i].tokens.accessToken,
                               refresh_token |-> inflight[i].tokens.refreshToken,
                               xsrfToken |-> inflight[i].tokens.xsrfToken]}
    /\ UNCHANGED <<redis, rng, now, calls>>

\* HDEL answers; the handler sets the cookies and sends the new tokens
RefreshHdel(i) ==
    /\ inflight[i].pc = "hdel"
    /\ redis' = [redis EXCEPT !.refreshToken = hdel(@, inflight[i].refreshToken)]
    /\ Complete(i, [xsrfToken |-> inflight[i].tokens.xsrfToken])
    /\ issued' = issued \cup {[access_token |-> inflight[i].tokens.accessToken,
                               refresh_token |-> inflight[i].tokens.refreshToken,
                               xsrfToken |-> inflight[i].tokens.xsrfToken]}
    /\ UNCHANGED <<rng, now, calls>>

RefreshToken ==
    \E i \in DOMAIN inflight :
        \/ RefreshHget(i)
        \/ RefreshGet(i)
        \/ RefreshGenerateToken(i)
        \/ RefreshHdel(i)

NextRefresh ==
    \/ SignIn
    \/ RefreshReceive
    \/ RefreshToken

SpecRefresh == InitHttp /\ [][NextRefresh]_vars

----------------------------------------------------------------------------
(* Sessions over time: sign-in, refresh, and the calls of the user model    *)
(* that change or remove the account, with the clock running.              *)

\* The clock of the model counts token lifetimes (config.token.*.expiresIn),
\* the Redis commands of a handler are answered within milliseconds: the
\* clock moves between requests, not between two commands of one request.
Idle == \A i \in DOMAIN inflight : inflight[i].pc = "done"

SessionTick == Idle /\ Tick

\* a refresh request arrives once the previous one is answered, and counts
\* among the requests of the run
SessionReceive ==
    /\ Idle
    /\ Len(inflight) < MaxHandlers
    /\ calls < MaxRequests
    /\ calls' = calls + 1
    /\ \E cookies \in RefreshCookies :
        IF "refresh_token" \in DOMAIN cookies
        THEN /\ inflight' = Append(inflight, [pc |-> "hget",
                                              refreshToken |-> cookies.refresh_token])
             /\ UNCHANGED ret
        ELSE /\ inflight' = Append(inflight, [pc |-> "done", answer |-> missingRefreshToken])
             /\ ret' = [op |-> "refreshToken", handler |-> Len(inflight) + 1,
                        val |-> missingRefreshToken]
    /\ UNCHANGED <<redis, rng, now, issued>>

SessionRefresh ==
    \/ SessionReceive
    \/ RefreshToken

\* the account signs in with its email; its password is changed by
\* user.update or by the reset link; it is deleted by id
NextSession ==
    \/ Idle /\ SignIn /\ ret'.req.body.authMethod = "emailAuth"
            /\ ret'.req.body.email = Email_a
    \/ SessionRefresh
    \/ Idle /\ Update /\ DOMAIN ret'.userParams = {"id", "password"}
    \/ Idle /\ Del /\ DOMAIN ret'.opts = {"id"}
    \/ Idle /\ SendAskResetPassword /\ ret'.email = Email_a
    \/ Idle /\ ResetPassword
    \/ SessionTick

SpecSession == InitHttp /\ [][NextSession]_vars

\* the same sessions with a clock that does not stop before MaxTime: time
\* passes whether or not a request arrives
SpecSessionFair == SpecSession /\ WF_vars(SessionTick)

\* the sessions of an account that is deleted: it signs in, its cookies are
\* presented to a route behind verifyJWT and to the refresh route, and
\* user.del is called with its id
NextDeleted ==
    \/ Idle /\ SignIn /\ ret'.req.body.authMethod = "emailAuth"
            /\ ret'.req.body.email = Email_a
    \/ Idle /\ GetAuth
    \/ SessionRefresh
    \/ Idle /\ Del /\ DOMAIN ret'.opts = {"id"}
    \/ SessionTick

SpecDeleted == InitHttp /\ [][NextDeleted]_vars

----------------------------------------------------------------------------
(* Sign-in by url-token, next to the calls that create and delete users     *)

\* the bodies of a streamLineAuth sign-in: the url-token in `token` or in
\* `urlToken`, with or without a password
StreamLineBodies ==
    {[authMethod |-> "streamLineAuth"] @@ Given("token", k, Undefined)
        @@ Given("urlToken", u, Undefined) @@ Given("password", p, Undefined) :
        k \in UrlTokens \cup {Undefined}, u \in UrlTokens \cup {Undefined},
        p \in FirstPasswords \cup {Undefined}}

StreamLineSignIn ==
    /\ Requested
    /\ \E body \in StreamLineBodies :
        LET out == signIn(redis, body, now, rng.sessions + 1)
            signedIn == "access_token" \in DOMAIN out.cookies
        IN  /\ signedIn => rng.sessions < MaxSessions
            /\ Answered("signIn", [body |-> body], TRUE, out.db, out.ret)
            /\ rng' = IF signedIn THEN [rng EXCEPT !.sessions = @ + 1] ELSE rng
            /\ issued' = IF signedIn
                         THEN issued \cup {out.cookies @@ [xsrfToken |-> out.ret.xsrfToken]}
                         ELSE issued
    /\ UNCHANGED now

NextSignIn ==
    \/ StreamLineSignIn
    \/ SignIn
    \/ New
    \/ Del

SpecSignIn == InitHttp /\ [][NextSignIn]_vars

----------------------------------------------------------------------------
(* POST /api/users/askResetPassword, next to the calls that create and      *)
(* delete users                                                            *)

\* the status of the reply to res.send(payload): an Error is answered with
\* its `status` (errors/user.js sets it), 500 when it has none; any other
\* payload with 200
replyCode(payload) ==
    IF "isHTTPError" \notin DOMAIN payload THEN 200
    ELSE IF payload.isHTTPError THEN payload.status
    ELSE 500

\* controllers.user.askResetPassword: sends what the model returns
ctlAskResetPassword(db, req, t, n, sent) ==
    sendAskResetPassword(db, req.body.email, t, n, sent)

\* the route has no preHandler
AskResetPassword ==
    /\ Requested
    /\ \E e \in Emails, sent \in BOOLEAN :
        LET req == [body |-> [email |-> e]]
            out == ctlAskResetPassword(redis, req, now, rng.tokens + 1, sent)
            drew == out.db # redis
        IN  /\ drew => rng.tokens < MaxTokens
            /\ redis' = out.db
            /\ rng' = IF drew THEN [rng EXCEPT !.tokens = @ + 1] ELSE rng
            /\ ret' = [op |-> "askResetPassword", req |-> req, sent |-> sent,
                       code |-> replyCode(out.ret), val |-> out.ret]
    /\ UNCHANGED <<now, issued>>

NextAsk ==
    \/ AskResetPassword
    \/ New
    \/ Del
    \/ Tick

SpecAsk == InitHttp /\ [][NextAsk]_vars

----------------------------------------------------------------------------
(* Sign-in and refresh with a store that may refuse the HSET of             *)
(* generateToken                                                           *)

\* POST /api/users/signIn; the cookies of a sign-in whose tokens are
\* undefined are of no use to the client and are only kept in `ret`
StoreSignIn ==
    /\ Requested
    /\ \E body \in SignInBodies, stored \in BOOLEAN :
        LET out == signInStored(redis, body, now, rng.sessions + 1, stored)
            signedIn == "access_token" \in DOMAIN out.cookies
        IN  /\ (signedIn /\ stored) => rng.sessions < MaxSessions
            /\ redis' = out.db
            /\ ret' = [op |-> "signIn", req |-> [body |-> body], stored |-> stored,
                       code |-> replyCode(out.ret), val |-> out.ret,
                       refresh_token |-> Field(out.cookies, "refresh_token")]
            /\ rng' = IF signedIn /\ stored THEN [rng EXCEPT !.sessions = @ + 1] ELSE rng
            /\ issued' = IF signedIn /\ stored
                         THEN issued \cup {out.cookies @@ [xsrfToken |-> out.ret.xsrfToken]}
                         ELSE issued
    /\ UNCHANGED now

\* the HSET of generateToken fails: generateToken returns {error}, the
\* handler goes on, deletes the old record and sends its answer, in which
\* the tokens are undefined
RefreshStoreFails(i) ==
    /\ inflight[i].pc = "generateToken"
    /\ redis' = [redis EXCEPT !.refreshToken = hdel(@, inflight[i].refreshToken)]
    /\ Proceed(i, [pc |-> "done", tokens |-> [error |-> PlainError("hset")],
                   answer |-> EmptyObject])
    /\ ret' = [op |-> "refreshToken", handler |-> i, val |-> EmptyObject]
    /\ UNCHANGED <<rng, now, calls, issued>>

NextStore ==
    \/ StoreSignIn
    \/ RefreshReceive
    \/ RefreshToken
    \/ \E i \in DOMAIN inflight : RefreshStoreFails(i)

SpecStore == InitHttp /\ [][NextStore]_vars

----------------------------------------------------------------------------
(* user.new, one Redis command at a time: HGET user:idByEmail, then the     *)
(* MULTI of the four HSETs.  Calls made by different requests interleave   *)
(* at the two awaits.                                                      *)

\* user.new is called, with an email in the letter case it is stored in,
\* and sends HGET
NewCalled ==
    /\ Len(inflight) < MaxHandlers
    /\ \E e \in {Email_a, Email_b}, r \in Roles, p \in FirstPasswords :
        inflight' = Append(inflight,
            [pc |-> "hget", password |-> p,
             user |-> [email |-> e, role |-> r, firstname |-> "John", lastname |-> "Doe"]])
    /\ ret' = [op |-> "newCalled", handler |-> Len(inflight) + 1]
    /\ UNCHANGED <<redis, rng, now, calls, issued>>

\* HGET answers: the call gives up when the email has an entry, and sends
\* the MULTI otherwise
NewHget(i) ==
    /\ inflight[i].pc = "hget"
    /\ IF hget(redis.idByEmail, inflight[i].user.email) # Null
       THEN /\ Proceed(i, [pc |-> "done", answer |-> [error |-> userAlreadyExists]])
            /\ ret' = [op |-> "new", handler |-> i, val |-> [error |-> userAlreadyExists]]
       ELSE /\ Proceed(i, [pc |-> "exec"])
            /\ ret' = [op |-> "newHget", handler |-> i]
    /\ UNCHANGED <<redis, rng, now, calls, issued>>

\* EXEC answers: the four HSETs are done and the call returns
NewExec(i) ==
    /\ inflight[i].pc = "exec"
    /\ rng.users < MaxUsers
    /\ LET out == newExec(redis, inflight[i].user, inflight[i].password, rng.users + 1)
       IN  /\ redis' = out.db
           /\ Proceed(i, [pc |-> "done", answer |-> out.ret])
           /\ rng' = IF "userAdded" \in DOMAIN out.ret
                     THEN [rng EXCEPT !.users = @ + 1] ELSE rng
           /\ ret' = [op |-> "new", handler |-> i, val |-> out.ret]
    /\ UNCHANGED <<now, calls, issued>>

NextNew ==
    \/ NewCalled
    \/ \E i \in DOMAIN inflight : NewHget(i)
    \/ \E i \in DOMAIN inflight : NewExec(i)

SpecNew == Init /\ [][NextNew]_vars

----------------------------------------------------------------------------
(* user.update and user.del, one await at a time, next to user.get: the     *)
(* calls of different requests interleave at each await.  A call of         *)
(* user.get inside update and del is taken as one step.                     *)

\* the calls that are made: updates of the seeded user's email, password or
\* role, and its deletion
RaceCalls ==
    {[op |-> "update", pc |-> "get", userParams |-> userParams] :
        userParams \in {[id |-> createUUID(1), email |-> Email_b],
                        [id |-> createUUID(1), password |-> "p2"],
                        [id |-> createUUID(1), role |-> "#1"]}}
    \cup {[op |-> "del", pc |-> "get", opts |-> [id |-> createUUID(1)]]}

RaceCalled ==
    /\ Len(inflight) < MaxHandlers
    /\ \E call \in RaceCalls : inflight' = Append(inflight, call)
    /\ UNCHANGED <<redis, rng, now, ret, calls, issued>>

\* call i returns `answer`
Returned(i, answer) ==
    /\ Proceed(i, [pc |-> "done", answer |-> answer])
    /\ ret' = [op |-> inflight[i].op, handler |-> i, val |-> answer]

\* the pc of an update that has read `user`, from step `pc` on: the email
\* MULTI and the role MULTI are sent only when their branch is taken
UpdateGoesOn(i, user, pc) ==
    LET userParams == inflight[i].userParams
        emailBranch ==
            /\ "email" \in DOMAIN userParams
            /\ isEmailOk(userParams.email)
            /\ userParams.email # EmailField(user)
        roleBranch ==
            /\ "role" \in DOMAIN userParams
            /\ userParams.role # Field(user, "role")
            /\ isRoleExist(userParams.role)
    IN  Proceed(i, [user |-> user,
                    pc |-> IF pc = "get" /\ emailBranch THEN "email"
                           ELSE IF pc \in {"get", "email"} /\ roleBranch THEN "role"
                           ELSE "hset"])

\* update: the email is looked up, then the user by id
UpdateGet(i) ==
    /\ inflight[i].op = "update" /\ inflight[i].pc = "get"
    /\ LET userParams == inflight[i].userParams
           out == update(redis, userParams, now, createSalt(0))
           user == get(redis, [id |-> userParams.id], now)
       IN  IF "userUpdated" \notin DOMAIN out.ret
           THEN Returned(i, out.ret)
           ELSE UpdateGoesOn(i, user, "get") /\ UNCHANGED ret
    /\ UNCHANGED <<redis, rng, now, calls, issued>>

\* update: the MULTI of the email branch is answered
UpdateEmail(i) ==
    /\ inflight[i].op = "update" /\ inflight[i].pc = "email"
    /\ redis' = updateEmail(redis, inflight[i].user, inflight[i].userParams)
    /\ UpdateGoesOn(i, inflight[i].user, "email")
    /\ UNCHANGED <<rng, now, ret, calls, issued>>

\* update: the MULTI of the role branch is answered
UpdateRole(i) ==
    /\ inflight[i].op = "update" /\ inflight[i].pc = "role"
    /\ redis' = updateRole(redis, inflight[i].user, inflight[i].userParams)
    /\ UpdateGoesOn(i, inflight[i].user, "role")
    /\ UNCHANGED <<rng, now, ret, calls, issued>>

\* update: the final HSET is answered and the call returns
UpdateHset(i) ==
    /\ inflight[i].op = "update" /\ inflight[i].pc = "hset"
    /\ redis' = updateHset(redis, inflight[i].user, inflight[i].userParams, createSalt(0))
    /\ Returned(i, [userUpdated |-> TRUE, id |-> Field(inflight[i].user, "id")])
    /\ UNCHANGED <<rng, now, calls, issued>>

\* del: user.get is answered
DelGet(i) ==
    /\ inflight[i].op = "del" /\ inflight[i].pc = "get"
    /\ Proceed(i, [pc |-> "exec", user |-> get(redis, inflight[i].opts, now)])
    /\ UNCHANGED <<redis, rng, now, ret, calls, issued>>

\* del: the MULTI is answered and the call returns
DelExec(i) ==
    /\ inflight[i].op = "del" /\ inflight[i].pc = "exec"
    /\ LET out == delExec(redis, inflight[i].user, now)
       IN  redis' = out.db /\ Returned(i, out.ret)
    /\ UNCHANGED <<rng, now, calls, issued>>

\* a call of user.get by another request
RaceGet ==
    /\ \E opts \in {[id |-> createUUID(1)], [email |-> Email_a], [email |-> Email_b]} :
        ret' = [op |-> "get", opts |-> opts, val |-> get(redis, opts, now)]
    /\ UNCHANGED <<redis, rng, now, calls, issued, inflight>>

NextRace ==
    \/ RaceCalled
    \/ \E i \in DOMAIN inflight : UpdateGet(i)
    \/ \E i \in DOMAIN inflight : UpdateEmail(i)
    \/ \E i \in DOMAIN inflight : UpdateRole(i)
    \/ \E i \in DOMAIN inflight : UpdateHset(i)
    \/ \E i \in DOMAIN inflight : DelGet(i)
    \/ \E i \in DOMAIN inflight : DelExec(i)
    \/ RaceGet

SpecRace == InitHttp /\ [][NextRace]_vars

----------------------------------------------------------------------------
(* Calls of the log model                                                  *)

\* the params of getAll and delAll: a type alone, or with start and stop
LogParams ==
    {[type |-> type] : type \in {"error", "info"}}
        \cup {[type |-> "error", start |-> start, stop |-> stop] :
                start \in 0..MaxTime, stop \in 0..MaxTime}

LogAdd ==
    /\ Called
    /\ \E type \in {"error", "info"}, save \in BOOLEAN :
        LET params == [type |-> type, message |-> "m", save |-> save]
            out == logAdd(redis, params, now)
        IN  /\ redis' = out.db
            /\ ret' = [op |-> "log.add", params |-> params, val |-> out.ret]
    /\ UNCHANGED <<rng, now>>

LogGetAll ==
    /\ Called
    /\ \E params \in LogParams :
        ret' = [op |-> "log.getAll", params |-> params, val |-> logGetAll(redis, params)]
    /\ UNCHANGED <<redis, rng, now>>

LogDelAll ==
    /\ Called
    /\ \E params \in LogParams \cup {EmptyObject} :
        LET out == logDelAll(redis, params)
        IN  /\ redis' = out.db
            /\ ret' = [op |-> "log.delAll", params |-> params, val |-> out.ret]
    /\ UNCHANGED <<rng, now>>

NextLog ==
    \/ LogAdd
    \/ LogGetAll
    \/ LogDelAll
    \/ Tick

SpecLog == Init /\ [][NextLog]_vars

----------------------------------------------------------------------------
(* Properties of the directory                                             *)

\* the keys user:<role>:<id> that exist
LiveKeys == DOMAIN redis.users

\* the record a user id has under the role user:roleById gives it, if any
LiveRecord(db, id) ==
    IF id \in DOMAIN db.roleById /\ <<db.roleById[id], id>> \in DOMAIN db.users
    THEN db.users[<<db.roleById[id], id>>]
    ELSE EmptyObject

\* some record under a key user:<role>:<id> holds this email
Held(db, email) ==
    \E k \in DOMAIN db.users : "email" \in DOMAIN db.users[k] /\ db.users[k].email = email

\* C1: no two live user records hold the same email, whatever calls to new,
\* update and del came before and in whatever letter case emails were given
C1_EmailsAreUnique ==
    \A k1, k2 \in LiveKeys :
        /\ k1 # k2
        /\ "email" \in DOMAIN redis.users[k1]
        /\ "email" \in DOMAIN redis.users[k2]
        => redis.users[k1].email # redis.users[k2].email

\* C2: every live record user:<role>:<id> is the one its three indexes point
\* to: roleById[id] is role, idByEmail[email] is id and idByToken[token] is id
C2_IndexesAgreeWithRecords ==
    \A k \in LiveKeys :
        LET role == k[1]
            id == k[2]
            user == redis.users[k]
        IN  /\ id \in DOMAIN redis.roleById /\ redis.roleById[id] = role
            /\ "email" \in DOMAIN user
            /\ user.email \in DOMAIN redis.idByEmail /\ redis.idByEmail[user.email] = id
            /\ "token" \in DOMAIN user
            /\ user.token \in DOMAIN redis.idByToken /\ redis.idByToken[user.token] = id

\* the record an authentication identifier leads to, read off the indexes
Identified(db, authType, id) ==
    IF authType = "emailAuth" /\ id \in DOMAIN db.idByEmail
    THEN LiveRecord(db, db.idByEmail[id])
    ELSE IF authType = "streamLineAuth" /\ id \in DOMAIN db.idByToken
    THEN LiveRecord(db, db.idByToken[id])
    ELSE EmptyObject

AuthenticatesAs(db, id, password, t) ==
    \/ \E e \in Emails :
        LET a == authenticate(db, e, password, "emailAuth", t)
        IN  a.authorized /\ Field(a.user, "id") = id
    \/ \E k \in UrlTokens :
        LET a == authenticate(db, k, password, "streamLineAuth", t)
        IN  a.authorized /\ Field(a.user, "id") = id

\* C7: once update({id, password: p}) or resetPassword(token, p) has succeeded,
\* the user authenticates with p and with no other password, whatever updates
\* of role or email came before
C7_NewPasswordReplacesTheOld ==
    /\ ret.op \in {"update", "resetPassword"}
    /\ "userUpdated" \in DOMAIN ret.val
    /\ ret.op = "update" => "password" \in DOMAIN ret.userParams
    => LET p == IF ret.op = "update" THEN ret.userParams.password ELSE ret.password
       IN  /\ AuthenticatesAs(redis, ret.val.id, p, now)
           /\ \A q \in Passwords \ {p} : ~AuthenticatesAs(redis, ret.val.id, q, now)

\* C8: new, given an email no live user holds, answers {userAdded: true, id}
\* with an id no user had, and get by that id, by the lowercased email and by
\* the record's token then give one and the same user, with the firstname,
\* lastname and role that were supplied
C8_NewUserIsRetrievable ==
    [][ret'.op = "new" /\ ~Held(redis, toLowerCase(ret'.user.email)) =>
        /\ "userAdded" \in DOMAIN ret'.val
        /\ ret'.val.userAdded
        /\ \A k \in DOMAIN redis.users : k[2] # ret'.val.id
        /\ ret'.val.id \notin DOMAIN redis.roleById
        /\ LET byId == get(redis', [id |-> ret'.val.id], now')
               byEmail == get(redis', [email |-> toLowerCase(ret'.user.email)], now')
               byToken == get(redis', [token |-> Field(byId, "token")], now')
           IN  /\ "error" \notin DOMAIN byId
               /\ byEmail = byId
               /\ byToken = byId
               /\ byId.id = ret'.val.id
               /\ byId.firstname = ret'.user.firstname
               /\ byId.lastname = ret'.user.lastname
               /\ byId.role = ret'.user.role]_vars

\* C9: new, given an email that a live user's record already holds, answers
\* the UserAlreadyExists error and leaves every record and the three indexes
\* as they were
C9_ExistingEmailIsRefused ==
    [][ret'.op = "new" /\ Held(redis, ret'.user.email) =>
        /\ ret'.val = [error |-> userAlreadyExists]
        /\ redis'.users = redis.users
        /\ redis'.idByEmail = redis.idByEmail
        /\ redis'.roleById = redis.roleById
        /\ redis'.idByToken = redis.idByToken]_vars

\* C10: after a successful update that supplies an email other than the stored
\* one, idByEmail maps the lowercased new email to the user's id, the record's
\* email is the lowercased new email, and the previous email leads to no user
\* unless it is the lowercased new email
C10_EmailChangeMovesTheIndex ==
    [][/\ ret'.op = "update"
       /\ "userUpdated" \in DOMAIN ret'.val
       /\ "email" \in DOMAIN ret'.userParams
       /\ "email" \in DOMAIN LiveRecord(redis, ret'.val.id)
       /\ LiveRecord(redis, ret'.val.id).email # ret'.userParams.email
       => LET id == ret'.val.id
              previous == LiveRecord(redis, id).email
              lowercased == toLowerCase(ret'.userParams.email)
          IN  /\ lowercased \in DOMAIN redis'.idByEmail
              /\ redis'.idByEmail[lowercased] = id
              /\ EmailField(LiveRecord(redis', id)) = lowercased
              /\ previous # lowercased =>
                    "error" \in DOMAIN get(redis', [email |-> previous], now')]_vars

\* C11: after a successful update that supplies a role other than the user's
\* current one, the whole record (every field stored before) is under
\* user:<newRole>:<id>, user:roleById[id] is the new role, and no key
\* user:<oldRole>:<id> remains
C11_RoleChangeMovesTheRecord ==
    [][/\ ret'.op = "update"
       /\ "userUpdated" \in DOMAIN ret'.val
       /\ "role" \in DOMAIN ret'.userParams
       /\ LiveRecord(redis, ret'.val.id) # EmptyObject
       /\ toRedisString(ret'.userParams.role) # redis.roleById[ret'.val.id]
       => LET id == ret'.val.id
              oldRole == redis.roleById[id]
              newRole == toRedisString(ret'.userParams.role)
              before == LiveRecord(redis, id)
          IN  /\ id \in DOMAIN redis'.roleById
              /\ redis'.roleById[id] = newRole
              /\ <<newRole, id>> \in DOMAIN redis'.users
              /\ \A f \in DOMAIN before \ DOMAIN ret'.userParams :
                    /\ f \in DOMAIN redis'.users[<<newRole, id>>]
                    /\ redis'.users[<<newRole, id>>][f] = before[f]
              /\ <<oldRole, id>> \notin DOMAIN redis'.users]_vars

\* the live record that the argument of get and del leads to
LookedUp(db, opts) ==
    IF "id" \in DOMAIN opts THEN LiveRecord(db, opts.id)
    ELSE IF "email" \in DOMAIN opts THEN Identified(db, "emailAuth", opts.email)
    ELSE Identified(db, "streamLineAuth", opts.token)

\* C12: once del has resolved a live user and answered {userDeleted: true,
\* id}, no key user:<role>:<id> exists for that id under any role, the three
\* indexes hold no entry for the user's email, id and url-token, and
\* user:archived:<email> holds a record with the same id; whatever calls to
\* new and update came before
C12_DelRemovesTheUser ==
    [][/\ ret'.op = "del"
       /\ LookedUp(redis, ret'.opts) # EmptyObject
       => LET user == LookedUp(redis, ret'.opts)
          IN  /\ ret'.val = [userDeleted |-> TRUE, id |-> Field(user, "id")]
              /\ \A k \in DOMAIN redis'.users : k[2] # Field(user, "id")
              /\ EmailField(user) \notin DOMAIN redis'.idByEmail
              /\ Field(user, "id") \notin DOMAIN redis'.roleById
              /\ Field(user, "token") \notin DOMAIN redis'.idByToken
              /\ EmailField(user) \in DOMAIN redis'.archived
              /\ Field(redis'.archived[EmailField(user)], "id") = Field(user, "id")]_vars

----------------------------------------------------------------------------
(* Properties of the HTTP API                                              *)

\* the routes whose preHandler is verifyJWT
ProtectedOps == {"getAuth", "new", "update", "del", "getAll", "get"}

\* the request carries an access token that verifies, the XSRF token that
\* token embeds, and the id of a user that is live
ValidRequest(db, req, t) ==
    /\ "access_token" \in DOMAIN req.cookies
    /\ LET accessToken == req.cookies.access_token
           websocket == "upgrade" \in DOMAIN req.headers
                            /\ req.headers["upgrade"] = "websocket"
       IN  /\ accessToken.signed
           /\ t < accessToken.exp
           /\ IF websocket
              THEN /\ "sec-websocket-protocol" \in DOMAIN req.headers
                   /\ req.headers["sec-websocket-protocol"][1] = accessToken.xsrfToken
              ELSE /\ "x-srf-token" \in DOMAIN req.headers
                   /\ req.headers["x-srf-token"] = accessToken.xsrfToken
           /\ LiveRecord(db, accessToken.id) # EmptyObject

\* C4: verifyJWT lets a request through to its route handler only if the
\* access_token cookie is there and verifies (signature and expiry), an XSRF
\* token is supplied (x-srf-token, or the first sec-websocket-protocol entry
\* on a websocket upgrade) and is the token's xsrfToken claim, and the token's
\* user id leads to a live user at that time
C4_OnlyValidRequestsReachHandlers ==
    [][ret'.op \in ProtectedOps /\ ret'.reached => ValidRequest(redis, ret'.req, now)]_vars

\* a websocket upgrade reached the handler of a protected route
C4_Witness ==
    /\ ret.op \in ProtectedOps
    /\ ret.reached
    /\ Field(ret.req.headers, "upgrade") = "websocket"

\* the role isAdmin reads for a user id
StoredRole(db, id) == Field(LiveRecord(db, id), "role")
Admins(db) == {id \in DOMAIN db.roleById : StoredRole(db, id) = "admin"}

\* the request carries an access token of a user whose stored role is admin
ActingAsAdmin(db, req, t) ==
    /\ "cookies" \in DOMAIN req
    /\ "access_token" \in DOMAIN req.cookies
    /\ req.cookies.access_token.signed
    /\ t < req.cookies.access_token.exp
    /\ StoredRole(db, req.cookies.access_token.sub) = "admin"

\* C5: a request that is not made by an administrator makes no user's stored
\* role (the one isAdmin reads) become admin; only administrators create
\* administrators and raise roles
C5_OnlyAdminsMakeAdmins ==
    [][ret'.op \in ProtectedOps \cup {"signIn"} /\ ~ActingAsAdmin(redis, ret'.req, now)
        => Admins(redis') \subseteq Admins(redis)]_vars

AdminOps == {"new", "getAll", "del"}

\* the handler's answer is, or carries, this error
Raised(val, error) ==
    \/ val = error
    \/ "error" \in DOMAIN val /\ val.error = error

\* the handler created a user, listed users or deleted one
Acted(val) == DOMAIN val \cap {"userAdded", "users", "userDeleted"} # {}

\* C17: the handlers of POST /api/users, GET /api/users and DELETE
\* /api/users/:id create, list or delete users only for a caller whose access
\* token resolves to a live user of role admin; for every other caller they
\* raise UserNotAuthorized and leave the store as it is
C17_AdminRoutesAreGated ==
    [][(ret'.op \in AdminOps /\ ret'.reached)
        => IF ActingAsAdmin(redis, ret'.req, now)
           THEN ~Raised(ret'.val, userNotAuthorized)
           ELSE /\ Raised(ret'.val, userNotAuthorized)
                /\ ~Acted(ret'.val)
                /\ redis' = redis]_vars

\* a signed-in user who is no administrator called one of the three routes
\* and was refused
C17_Witness ==
    /\ ret.op \in AdminOps
    /\ ret.reached
    /\ ~ActingAsAdmin(redis, ret.req, now)
    /\ Raised(ret.val, userNotAuthorized)

\* the entries of an index that lead to a user other than `caller`
OfOthers(index, caller) == {f \in DOMAIN index : index[f] # caller}

\* the email fields the records hold, each with the key of its record
EmailFields(db) ==
    {<<k, db.users[k].email>> : k \in {key \in DOMAIN db.users : "email" \in DOMAIN db.users[key]}}

\* C18: a PUT /api/users/:id of a caller who is no administrator changes no
\* record and no index entry of another user, no email field of any record
\* and no entry of user:idByEmail
C18_NonAdminsUpdateOnlyThemselves ==
    [][(ret'.op = "update" /\ ret'.reached /\ ~ActingAsAdmin(redis, ret'.req, now))
        => LET caller == ret'.req.cookies.access_token.sub
               others == {k \in DOMAIN redis.users \cup DOMAIN redis'.users : k[2] # caller}
           IN  /\ \A k \in others :
                    /\ k \in DOMAIN redis.users \cap DOMAIN redis'.users
                    /\ redis'.users[k] = redis.users[k]
               /\ \A id \in (DOMAIN redis.roleById \cup DOMAIN redis'.roleById) \ {caller} :
                    /\ id \in DOMAIN redis.roleById \cap DOMAIN redis'.roleById
                    /\ redis'.roleById[id] = redis.roleById[id]
               /\ OfOthers(redis'.idByToken, caller) = OfOthers(redis.idByToken, caller)
               /\ \A f \in OfOthers(redis.idByToken, caller) :
                    redis'.idByToken[f] = redis.idByToken[f]
               /\ redis'.idByEmail = redis.idByEmail
               /\ EmailFields(redis') = EmailFields(redis)]_vars

\* a caller who is no administrator updated their own account with a body
\* that names another email
C18_Witness ==
    /\ ret.op = "update"
    /\ ret.reached
    /\ "userUpdated" \in DOMAIN ret.val
    /\ StoredRole(redis, ret.req.cookies.access_token.sub) # "admin"
    /\ ret.req.body.user.email # EmailField(LiveRecord(redis, ret.req.cookies.access_token.sub))

\* C19: GET /api/users/:id is refused with UserNotAuthorized exactly when the
\* caller is no administrator and asks for an id that is not their own; an
\* administrator obtains the record of every existing user
C19_AdminsReadEveryUser ==
    [][(ret'.op = "get" /\ ret'.reached)
        => LET caller == ret'.req.cookies.access_token.sub
               id == ret'.req.params.id
               admin == ActingAsAdmin(redis, ret'.req, now)
           IN  /\ Raised(ret'.val, userNotAuthorized) <=> (~admin /\ id # caller)
               /\ (admin /\ LiveRecord(redis, id) # EmptyObject)
                    => /\ "user" \in DOMAIN ret'.val
                       /\ Field(ret'.val.user, "id") = id]_vars

\* the live users whose record holds this email and whose stored hash is the
\* hash of this password under their salt
Owners(db, email, password) ==
    {id \in DOMAIN db.roleById :
        LET user == LiveRecord(db, id)
        IN  /\ user # EmptyObject
            /\ EmailField(user) = email
            /\ {"salt", "hPassword"} \subseteq DOMAIN user
            /\ createPasswordHash(password, user.salt, user.salt) = user.hPassword}

----------------------------------------------------------------------------
(* Properties of token refresh                                             *)

\* handler i answered with new tokens
Refreshed(i) == inflight[i].pc = "done" /\ "xsrfToken" \in DOMAIN inflight[i].answer

\* C3: of the refresh requests that present one and the same refresh token, at
\* most one ever completes with new tokens, however the handlers interleave
C3_RefreshTokenIsSingleUse ==
    \A i, j \in DOMAIN inflight :
        i # j /\ Refreshed(i) /\ Refreshed(j)
            => inflight[i].refreshToken # inflight[j].refreshToken

\* handler i presents the refresh token `token`
Presents(i, token) ==
    "refreshToken" \in DOMAIN inflight[i] /\ inflight[i].refreshToken = token

\* C13: when a refresh succeeds, user:refreshToken holds no record for the
\* token that was presented and holds, for the new refresh token, a record of
\* the same userId whose expiresOn is in the future; a refresh that looks the
\* old token up afterwards fails with InvalidToken
C13_RefreshRotatesTheToken ==
    [][\A i \in DOMAIN inflight :
        /\ (inflight[i].pc = "hdel" /\ inflight'[i].pc = "done")
            => LET oldToken == inflight[i].refreshToken
                   newToken == inflight[i].tokens.refreshToken
               IN  /\ oldToken \notin DOMAIN redis'.refreshToken
                   /\ newToken \in DOMAIN redis'.refreshToken
                   /\ redis'.refreshToken[newToken].userId = inflight[i].oldRefreshToken.userId
                   /\ redis'.refreshToken[newToken].expiresOn > now'
        /\ (inflight[i].pc = "hget" /\ inflight'[i].pc # "hget"
                /\ \E j \in DOMAIN inflight :
                    Refreshed(j) /\ Presents(j, inflight[i].refreshToken))
            => (inflight'[i].pc = "done" /\ inflight'[i].answer = invalidToken)]_vars

\* a token was rotated and a later refresh presenting it was refused
C13_Witness ==
    \E i, j \in DOMAIN inflight :
        /\ Refreshed(i)
        /\ Presents(j, inflight[i].refreshToken)
        /\ inflight[j].pc = "done"
        /\ inflight[j].answer = invalidToken

\* handler i has just been started, or has just gone past its HGET
Started(i) == i \notin DOMAIN inflight
Looked(i) == i \in DOMAIN inflight /\ inflight[i].pc = "hget" /\ inflight'[i].pc # "hget"
Failed(h, error) == h.pc = "done" /\ h.answer = error

\* C14: a refresh without cookie fails with MissingRefreshToken, one whose
\* token has no record with InvalidToken, one whose record's expiresOn is
\* strictly earlier than the clock with ExpiredToken, and a token presented
\* at exactly expiresOn goes on; the steps that end in these failures create
\* and delete no refresh-token record and issue no tokens
C14_RefreshFailuresChangeNothing ==
    [][\A i \in DOMAIN inflight' :
        LET h == inflight'[i]
            token == h.refreshToken
            records == redis.refreshToken
        IN  /\ Started(i)
                => /\ Failed(h, missingRefreshToken) <=> "refreshToken" \notin DOMAIN h
                   /\ redis'.refreshToken = records /\ issued' = issued
            /\ Looked(i)
                => /\ token \notin DOMAIN records => Failed(h, invalidToken)
                   /\ (token \in DOMAIN records /\ records[token].expiresOn < now)
                        => Failed(h, expiredToken)
                   /\ (token \in DOMAIN records /\ records[token].expiresOn >= now)
                        => h.pc = "get"
                   /\ redis'.refreshToken = records /\ issued' = issued]_vars

\* a refresh was refused for an expired token, one for a token without
\* record or without cookie, and the expired record is still stored
C14_Witness ==
    \E i, j \in DOMAIN inflight :
        /\ Failed(inflight[i], expiredToken)
        /\ inflight[i].refreshToken \in DOMAIN redis.refreshToken
        /\ Failed(inflight[j], invalidToken) \/ Failed(inflight[j], missingRefreshToken)

\* handler i has just completed with new tokens
Succeeds(i) ==
    /\ i \in DOMAIN inflight
    /\ inflight[i].pc = "hdel"
    /\ Refreshed(i)'

\* the refresh-token records of user id
RecordsOf(db, id) == {k \in DOMAIN db.refreshToken : db.refreshToken[k].userId = id}

\* C15: a refresh-token record is removed only by the successful refresh that
\* presents it; signIn, a failed refresh, update, resetPassword and del leave
\* every record as it is, and a refresh that presents an unexpired record of a
\* live user goes through, whatever sign-ins and password changes came before
C15_OnlyRefreshRemovesARecord ==
    [][/\ \A k \in DOMAIN redis.refreshToken :
            \/ /\ k \in DOMAIN redis'.refreshToken
               /\ redis'.refreshToken[k] = redis.refreshToken[k]
            \/ \E i \in DOMAIN inflight : Succeeds(i) /\ inflight[i].refreshToken = k
       /\ \A i \in DOMAIN inflight :
            (/\ inflight[i].pc = "get"
             /\ inflight'[i].pc # "get"
             /\ LiveRecord(redis, inflight[i].oldRefreshToken.userId) # EmptyObject)
                => inflight'[i].pc = "generateToken"]_vars

\* a user whose password was changed holds two refresh tokens, one of them
\* obtained by the refresh that has just been answered
C15_Witness ==
    /\ ret.op = "refreshToken"
    /\ "xsrfToken" \in DOMAIN ret.val
    /\ \E id \in DOMAIN redis.roleById :
        /\ Cardinality(RecordsOf(redis, id)) >= 2
        /\ inflight[ret.handler].tokens.refreshToken \in RecordsOf(redis, id)
        /\ Field(LiveRecord(redis, id), "hPassword")
                \notin {Undefined, Field(LiveRecord(Seeded, id), "hPassword")}

----------------------------------------------------------------------------
(* Properties of sign-in                                                    *)

\* the live user a url-token leads to, if any
TokenOwner(db, token) == Identified(db, "streamLineAuth", token)

\* the sign-in answered with a session: two cookies and the XSRF token
Session(val, before, after) ==
    /\ {"xsrfToken", "isAuth"} \subseteq DOMAIN val
    /\ val.xsrfToken \notin {Null, Undefined}
    /\ \E s \in after :
        /\ after = before \cup {s}
        /\ DOMAIN s = {"access_token", "refresh_token", "xsrfToken"}
        /\ s.xsrfToken = val.xsrfToken

\* C21: signIn with streamLineAuth and the url-token of a live user in the
\* body field `token`, without password, answers with the access_token and
\* refresh_token cookies and an xsrfToken
C21_TokenSignInIssuesASession ==
    [][(/\ ret'.op = "signIn"
        /\ ret'.req.body.authMethod = "streamLineAuth"
        /\ DOMAIN ret'.req.body = {"authMethod", "token"}
        /\ TokenOwner(redis, ret'.req.body.token) # EmptyObject)
        => Session(ret'.val, issued, issued')]_vars

\* the identifier the handler passes to authenticate
SignInIdentifier(body) ==
    IF body.authMethod = "emailAuth" THEN body.email ELSE Field(body, "urlToken")

\* the identifier leads to a live user whose stored hash is the hash of the
\* password of the body
Matches(db, body) ==
    LET user == Identified(db, body.authMethod, SignInIdentifier(body))
    IN  /\ user # EmptyObject
        /\ "password" \in DOMAIN body
        /\ {"salt", "hPassword"} \subseteq DOMAIN user
        /\ createPasswordHash(body.password, user.salt, user.salt) = user.hPassword

----------------------------------------------------------------------------
(* Properties of the password reset                                        *)

\* C23: POST /api/users/askResetPassword is answered with status 200 for
\* every email, whether or not the email is that of a live user and
\* whether or not the mail is dispatched.
C23_AskResetPasswordAlways200 ==
    [][ret'.op = "askResetPassword" => ret'.code = 200]_vars

C25_UnknownResetTokenChangesNothing ==
    [][(/\ ret'.op = "resetPassword"
        /\ \/ ret'.token \notin DOMAIN redis.passwordToken
           \/ now >= redis.passwordToken[ret'.token].expiresAt)
        => /\ ret'.val = [error |-> missingPasswordToken]
           /\ redis'.users = redis.users
           /\ redis'.idByEmail = redis.idByEmail
           /\ redis'.idByToken = redis.idByToken
           /\ redis'.roleById = redis.roleById]_vars

\* a reset was refused for a token whose time-to-live has elapsed, while the
\* user it was issued for is live
C25_Witness ==
    /\ ret.op = "resetPassword"
    /\ ret.val = [error |-> missingPasswordToken]
    /\ ret.token \in DOMAIN redis.passwordToken
    /\ now >= redis.passwordToken[ret.token].expiresAt
    /\ LiveRecord(redis, redis.passwordToken[ret.token].id) # EmptyObject

----------------------------------------------------------------------------
(* Properties of the directory, continued                                  *)

\* C26: update, given an email that a live user with another id holds
\* (emails compared lowercased, whatever the letter case of the one given),
\* returns an error and writes nothing: no record and no index changes.
C26_UpdateRefusesAnotherUsersEmail ==
    [][(/\ ret'.op = "update"
        /\ "email" \in DOMAIN ret'.userParams
        /\ \E id \in DOMAIN redis.roleById \ {ret'.userParams.id} :
              Field(LiveRecord(redis, id), "email") = toLowerCase(ret'.userParams.email))
        => /\ "error" \in DOMAIN ret'.val
           /\ redis' = redis]_vars

\* C27: whatever calls to new, update and del came before, getAll(role)
\* holds one entry for each live user whose role is `role` and no other
\* entry (no user of another role, no deleted user), and no entry carries
\* hPassword, salt or the url-token.
C27_GetAllListsTheUsersOfARole ==
    \A role \in Roles :
        LET entries == getAll(redis, role)
            users == {LiveRecord(redis, id) : id \in DOMAIN redis.roleById} \ {EmptyObject}
        IN  /\ \A e \in entries : DOMAIN e \cap {"hPassword", "salt", "token"} = {}
            /\ \A e \in entries :
                \E u \in users : Field(u, "id") = Field(e, "id") /\ Field(u, "role") = role
            /\ \A u \in users :
                Field(u, "role") = role
                    => Cardinality({e \in entries : Field(e, "id") = Field(u, "id")}) = 1

\* C28: after any completed calls to new, update and del, every user id of
\* user:roleById has at most one key user:<role>:<id>, and the role stored in
\* that record is the <role> of its key and is user:roleById[id].
C28_OneRolePerUser ==
    \A id \in DOMAIN redis.roleById :
        LET keys == {k \in LiveKeys : k[2] = id}
        IN  /\ Cardinality(keys) <= 1
            /\ \A k \in keys :
                /\ Field(redis.users[k], "role") = k[1]
                /\ k[1] = redis.roleById[id]

\* C29: once del has deleted a live user, the sorted set user:archived holds
\* that user's email with the time of this deletion as its score and
\* user:archived:<email> holds exactly that user's record, also when a user
\* with the same email was archived before.
C29_ArchiveRecordsTheLastDeletion ==
    [][(ret'.op = "del" /\ LookedUp(redis, ret'.opts) # EmptyObject)
        => LET user == LookedUp(redis, ret'.opts)
           IN  /\ user.email \in DOMAIN redis'.archivedZ
               /\ redis'.archivedZ[user.email] = now
               /\ user.email \in DOMAIN redis'.archived
               /\ redis'.archived[user.email] = user]_vars

\* C30: a call of new looks the email up once, before its writes: the call
\* whose HGET found no entry returns {userAdded: true, id} and writes its
\* record and index entries whatever other calls wrote in between, and it
\* leaves the records already stored as they are.  Two calls with the same
\* email that both read before either writes both succeed, and two live
\* records hold the email while user:idByEmail names one of them.
C30_NewLooksOnceBeforeItWrites ==
    [][\A i \in DOMAIN inflight :
        /\ (inflight[i].pc = "hget" /\ inflight'[i].pc # "hget")
            => /\ redis' = redis
               /\ inflight'[i].pc = "exec"
                    <=> inflight[i].user.email \notin DOMAIN redis.idByEmail
        /\ (inflight[i].pc = "exec" /\ inflight'[i].pc # "exec")
            => /\ "userAdded" \in DOMAIN inflight'[i].answer
               /\ inflight'[i].answer.userAdded
               /\ LET id == inflight'[i].answer.id
                      key == userKey(inflight[i].user.role, id)
                  IN  /\ key \in DOMAIN redis'.users \ DOMAIN redis.users
                      /\ redis'.users[key].email = inflight[i].user.email
                      /\ redis'.idByEmail[inflight[i].user.email] = id
                      /\ \A k \in DOMAIN redis.users : redis'.users[k] = redis.users[k]]_vars

\* two calls with the same email have both returned userAdded: true; two
\* live records hold that email and user:idByEmail names one of the two
C30_Witness ==
    \E i, j \in DOMAIN inflight :
        /\ i # j
        /\ inflight[i].pc = "done" /\ inflight[j].pc = "done"
        /\ inflight[i].user.email = inflight[j].user.email
        /\ "userAdded" \in DOMAIN inflight[i].answer
        /\ "userAdded" \in DOMAIN inflight[j].answer
        /\ inflight[i].answer.id # inflight[j].answer.id
        /\ Field(LiveRecord(redis, inflight[i].answer.id), "email") = inflight[i].user.email
        /\ Field(LiveRecord(redis, inflight[j].answer.id), "email") = inflight[i].user.email
        /\ redis.idByEmail[inflight[i].user.email] = inflight[j].answer.id

----------------------------------------------------------------------------
(* Properties of calls in flight                                           *)

\* C31: while an update is in flight a reader can find the record and its
\* index in disagreement: the MULTI of the email branch moves the entry of
\* user:idByEmail to the new email and writes no record, the record is
\* written by a later command; a get by the new email in between returns
\* the record that still holds the old email.
C31_IndexMovesBeforeTheRecord ==
    [][\A i \in DOMAIN inflight :
        (inflight[i].op = "update" /\ inflight[i].pc = "email" /\ inflight'[i].pc # "email")
            => LET userParams == inflight[i].userParams
                   user == inflight[i].user
               IN  /\ redis'.users = redis.users
                   /\ hget(redis'.idByEmail, toLowerCase(userParams.email)) = user.id
                   /\ user.email \notin DOMAIN redis'.idByEmail
                   /\ inflight'[i].pc \in {"role", "hset"}]_vars

\* get by the new email has returned the record with the old email, while
\* the update that changes the email waits for its final HSET
C31_Witness ==
    /\ ret.op = "get"
    /\ ret.opts = [email |-> Email_b]
    /\ EmailField(ret.val) = Email_a
    /\ get(redis, ret.opts, now) = ret.val
    /\ hget(redis.idByEmail, Email_b) = Field(ret.val, "id")
    /\ \E i \in DOMAIN inflight :
        /\ inflight[i].op = "update" /\ inflight[i].pc = "hset"
        /\ inflight[i].userParams = [id |-> Field(ret.val, "id"), email |-> Email_b]

----------------------------------------------------------------------------
(* Properties of the stored tokens over time                               *)

\* C32: every refresh-token record is removed from the store once its
\* lifetime has elapsed, also when it is never presented for a refresh: a
\* record whose expiresOn lies in the past is eventually gone.
C32_ExpiredRefreshTokensAreRemoved ==
    \A n \in 1..MaxSessions :
        (/\ createRefreshToken(n) \in DOMAIN redis.refreshToken
         /\ redis.refreshToken[createRefreshToken(n)].expiresOn < now)
            ~> (createRefreshToken(n) \notin DOMAIN redis.refreshToken)

----------------------------------------------------------------------------
(* Properties of the replies                                               *)

\* C33: when a handler of the user controller fails (caller not authorized,
\* user not found, error of the model), what it hands over is the error
\* itself, answered with the error's HTTP status; it is never an object
\* that wraps the error and is answered with status 200.
C33_FailuresCarryTheirStatus ==
    [][(ret'.op \in {"getAuth", "new", "update", "getAll", "get", "del", "signIn"}
            /\ ret'.reached)
        => LET val == ret'.val
               failed == "error" \in DOMAIN val \/ "isHTTPError" \in DOMAIN val
           IN  failed => /\ replyCode(val) >= 400
                         /\ "isHTTPError" \in DOMAIN val
                         /\ replyCode(val) = val.status]_vars

\* C34: a sign-in or a refresh whose refresh token could not be stored is
\* not answered with status 200: the refresh token that a reply of status
\* 200 delivers has a record in user:refreshToken when the reply is sent.
C34_DeliveredRefreshTokensAreStored ==
    [][/\ (ret'.op = "signIn" /\ ret'.code = 200)
            => ret'.refresh_token \in DOMAIN redis'.refreshToken
       /\ (ret'.op = "refreshToken" /\ ret' # ret /\ replyCode(ret'.val) = 200)
            => Field(inflight'[ret'.handler].tokens, "refreshToken")
                    \in DOMAIN redis'.refreshToken]_vars

----------------------------------------------------------------------------
(* Properties of deletion                                                  *)

\* C35: del, called with an id, an email or a url-token that leads to no
\* live user, returns an error and not {userDeleted: true}, and writes
\* nothing: no archive hash, no entry of user:archived, no index change.
C35_DelOfNobodyChangesNothing ==
    [][(ret'.op = "del" /\ "error" \in DOMAIN get(redis, ret'.opts, now))
        => /\ "error" \in DOMAIN ret'.val
           /\ "userDeleted" \notin DOMAIN ret'.val
           /\ redis' = redis]_vars

\* C36: once a del has returned {userDeleted: true} for a user, no key
\* user:<role>:<id> of that user's id exists in any later state, also when
\* an update of the same user was in flight at the time
C36_DeletedRecordsStayDeleted ==
    \A i \in DOMAIN inflight :
        (/\ inflight[i].op = "del"
         /\ inflight[i].pc = "done"
         /\ "userDeleted" \in DOMAIN inflight[i].answer
         /\ inflight[i].answer.id # Undefined)
            => \A k \in DOMAIN redis.users : k[2] # inflight[i].answer.id

\* C37: once del has completed for a user, a request that arrives later with
\* an access token issued to that user is answered 401 by verifyJWT and its
\* handler does not run, and a refresh that presents one of that user's
\* refresh tokens ends with an error, issues no token and stores none
C37_DeletedUsersHoldNoSession ==
    [][LET deleted == {Field(redis.archived[e], "id") : e \in DOMAIN redis.archived}
       IN  /\ (/\ ret'.op = "getAuth"
               /\ "access_token" \in DOMAIN ret'.req.cookies
               /\ \E s \in issued : s.access_token = ret'.req.cookies.access_token
               /\ ret'.req.cookies.access_token.id \in deleted)
                  => (~ret'.reached /\ ret'.val.sent /\ ret'.val.code = 401)
           /\ \A i \in DOMAIN inflight :
                (/\ inflight[i].pc # "done"
                 /\ inflight[i].refreshToken \in DOMAIN redis.refreshToken
                 /\ redis.refreshToken[inflight[i].refreshToken].userId \in deleted)
                    => /\ inflight'[i].pc \in {"get", "done"}
                       /\ inflight'[i].pc = "done"
                            => /\ "isHTTPError" \in DOMAIN inflight'[i].answer
                               /\ replyCode(inflight'[i].answer) >= 400
                       /\ redis'.refreshToken = redis.refreshToken
                       /\ issued' = issued
                       /\ rng' = rng]_vars

C37_Witness ==
    /\ ret.op = "getAuth"
    /\ ret.val = Sent401(badCredentials)
    /\ jwtVerifies(ret.req.cookies.access_token, now)
    /\ \E e \in DOMAIN redis.archived :
            Field(redis.archived[e], "id") = ret.req.cookies.access_token.id
    /\ \E i \in DOMAIN inflight :
        /\ inflight[i].pc = "done"
        /\ inflight[i].answer = userDoesNotExist
        /\ "oldRefreshToken" \in DOMAIN inflight[i]
        /\ inflight[i].oldRefreshToken.userId = ret.req.cookies.access_token.id
        /\ \E s \in issued : s.refresh_token = inflight[i].refreshToken

----------------------------------------------------------------------------
(* Properties of the log                                                   *)

\* C38: log.getAll({type: t}) called without start and stop returns every
\* entry that log.add saved under type t
C38_GetAllReturnsTheSavedEntries ==
    [][(ret'.op = "log.getAll" /\ DOMAIN ret'.params = {"type"}
            /\ ret'.params.type \in DOMAIN redis.log)
        => \A e \in DOMAIN redis.log[ret'.params.type] : formatRead(e) \in ret'.val]_vars

\* C39: when log.delAll({type: t}) called without start and stop returns
\* {logsDeleted: true}, no entry is left in log:t
C39_DelAllLeavesNoEntry ==
    [][(ret'.op = "log.delAll" /\ DOMAIN ret'.params = {"type"}
            /\ ret'.val.logsDeleted)
        => ret'.params.type \notin DOMAIN redis'.log]_vars
====
